---- MODULE Spec2Model ----
(***************************************************************************)
(* Verification model of the skills-scanner scoring core:                  *)
(*   - the relationship graph builder  (src/utils/graphBuilder.ts)         *)
(*   - the canonical tag normalizer    (src/unnamed/part_004, 2nd copy)    *)
(*                                                                         *)
(* Numbers.  Scores are IEEE doubles in the source.  Here a score is an    *)
(* integer number of units of 10^-8; the natural logarithm is a table in   *)
(* the same unit; the percentile threshold is a pair <<units, tenths>> so  *)
(* that the linear interpolation with weights k/10 is exact.  All          *)
(* intermediate values stay below 2^31.  Sums are exact here; a sum of     *)
(* doubles also depends on the order in which its terms are added.         *)
(* Ids are natural numbers; their numeric order stands for localeCompare.  *)
(***************************************************************************)
EXTENDS Integers, Sequences, FiniteSets, TLC

(***************************************************************************)
(* Generic sequence helpers (Array.prototype.* of the source).             *)
(***************************************************************************)
SeqToSet(s) == {s[i] : i \in DOMAIN s}

Includes(s, x) == \E i \in DOMAIN s : s[i] = x

RECURSIVE DedupeFrom(_, _, _)
DedupeFrom(s, i, acc) ==
    IF i > Len(s) THEN acc
    ELSE DedupeFrom(s, i + 1, IF Includes(acc, s[i]) THEN acc ELSE Append(acc, s[i]))

\* Array.from(new Set(list)): first occurrences, in order
Dedupe(s) == DedupeFrom(s, 1, <<>>)

\* Array.prototype.sort with a comparator: Before(a, b) iff compare(a, b) < 0.
\* The sort is stable: elements the comparator does not separate keep their order.
StableSort(s, Before(_, _)) ==
    LET n == Len(s)
        rank == [i \in 1..n |->
                    Cardinality({j \in 1..n : \/ Before(s[j], s[i])
                                              \/ (~Before(s[i], s[j]) /\ j < i)}) + 1]
    IN  [k \in 1..n |-> s[CHOOSE i \in 1..n : rank[i] = k]]

RECURSIVE SumRange(_, _, _)
SumRange(s, lo, hi) ==
    IF lo > hi THEN 0
    ELSE IF lo = hi THEN s[lo]
    ELSE SumRange(s, lo, (lo + hi) \div 2) + SumRange(s, ((lo + hi) \div 2) + 1, hi)

SumSeq(s) == SumRange(s, 1, Len(s))

RECURSIVE FlattenRange(_, _, _)
FlattenRange(ss, lo, hi) ==
    IF lo > hi THEN <<>>
    ELSE IF lo = hi THEN ss[lo]
    ELSE FlattenRange(ss, lo, (lo + hi) \div 2) \o FlattenRange(ss, ((lo + hi) \div 2) + 1, hi)

\* the concatenation of a sequence of sequences
FlattenSeq(ss) == FlattenRange(ss, 1, Len(ss))

Max2(a, b) == IF a >= b THEN a ELSE b

Abs(a) == IF a < 0 THEN -a ELSE a

\* (a + b) / 2
Half(a, b) == (a \div 2) + (b \div 2) + (((a % 2) + (b % 2)) \div 2)

\* x * num / den rounded half up, without leaving 32 bits (x >= 0)
MulDiv(x, num, den) ==
    (x \div den) * num + (((x % den) * num) * 2 + den) \div (2 * den)

(***************************************************************************)
(* Graph builder: constants of src/utils/graphBuilder.ts                   *)
(***************************************************************************)
Stages == {"intake", "plan", "implement", "verify", "refactor", "security", "docs", "release", "other"}

\* STAGE_ORDER counting from release down to intake
stageOrderDescending(stage) ==
    CASE stage = "intake" -> 7
      [] stage = "plan" -> 6
      [] stage = "implement" -> 5
      [] stage = "verify" -> 4
      [] stage = "refactor" -> 3
      [] stage = "security" -> 2
      [] stage = "docs" -> 1
      [] stage = "release" -> 0
      [] stage = "other" -> 8

STAGE_ORDER(stage) ==
    CASE stage = "intake" -> 0
      [] stage = "plan" -> 1
      [] stage = "implement" -> 2
      [] stage = "verify" -> 3
      [] stage = "refactor" -> 4
      [] stage = "security" -> 5
      [] stage = "docs" -> 6
      [] stage = "release" -> 7
      [] stage = "other" -> 8

STOPLIST == {"workflow", "planning", "tasks", "quality", "validation", "requirements"}

ARTIFACT_INTERFACE_TAGS ==
    <<"plan", "spec", "schema", "code", "patch", "tests", "docs", "config",
      "report", "pr", "deploy", "readme", "changelog">>

ARTIFACT_INTERFACE_SET == SeqToSet(ARTIFACT_INTERFACE_TAGS)

\* FIELD_WEIGHTS, in hundredths
FIELD_WEIGHTS == [artifacts |-> 135, capabilities |-> 115]

SPECIFIC_DF_RATIO_TENTHS == 3
SPECIFIC_IDF_MIN == 170000000
ABS_THRESHOLD == 120000000
PERCENTILE_THRESHOLD_TENTHS == 7
ALTERNATIVE_SIMILARITY_MIN_TENTHS == 6
RECIPROCAL_SCORE_EPSILON == 12000000

\* TOP_K with a smaller limit for precedes than for depends_on
topKFewerPrecedes(type) ==
    CASE type = "depends_on" -> 5
      [] type = "precedes" -> 3
      [] type = "complements" -> 5
      [] type = "alternative_to" -> 3

TOP_K(type) ==
    CASE type = "depends_on" -> 5
      [] type = "precedes" -> 5
      [] type = "complements" -> 5
      [] type = "alternative_to" -> 3

DIRECTED_TYPES == {"depends_on", "precedes"}

EdgeTypes == {"depends_on", "precedes", "complements", "alternative_to"}

(***************************************************************************)
(* Tags                                                                    *)
(***************************************************************************)
\* String.trim().toLowerCase() on the tokens that are not already canonical
LowerTrimmed == ("Code" :> "code") @@ (" tests " :> "tests") @@ ("  " :> "")

normalizeToken(token) == IF token \in DOMAIN LowerTrimmed THEN LowerTrimmed[token] ELSE token

normalizeTags(tags) ==
    Dedupe(SelectSeq([i \in DOMAIN tags |-> normalizeToken(tags[i])], LAMBDA t : t # ""))

\* intersectTags returning the tags of either list
concatTags(left, right) == normalizeTags(left \o right)

intersectTags(left, right) ==
    LET rightSet == SeqToSet(normalizeTags(right))
    IN  SelectSeq(normalizeTags(left), LAMBDA tag : tag \in rightSet)

\* Math.log(k) in units of 10^-8, k = 1 .. 40
LnTable ==
    <<
      0, 69314718, 109861229, 138629436, 160943791, 179175947, 194591015, 207944154,
      219722458, 230258509, 239789527, 248490665, 256494936, 263905733, 270805020, 277258872,
      283321334, 289037176, 294443898, 299573227, 304452244, 309104245, 313549422, 317805383,
      321887582, 325809654, 329583687, 333220451, 336729583, 340119738, 343398720, 346573590,
      349650756, 352636052, 355534806, 358351894, 361091791, 363758616, 366356165, 368887945 >>

\* ln((n + 1) / (df + 1)) + 1
smoothIdf(n, df) == LnTable[n + 1] - LnTable[df + 1] + 100000000

\* percentile(values, q) with q = qTenths / 10, as <<units, tenths of a unit>>:
\* sorted[low] * (1 - weight) + sorted[high] * weight, weight = (index - low).
\* Between two different scores the interpolation is computed exactly.  Between two
\* equal scores x the doubles x * (1 - weight) + x * weight give x for weight 1/2,
\* and for the other weights either x (or one ulp less, which drops nothing more)
\* or one ulp more than x, depending on the bits of x: roundsAbove says which, and
\* "one ulp more" is written <<x, 1>>.
percentile(values, qTenths, roundsAbove) ==
    IF Len(values) = 0 THEN <<0, 0>>
    ELSE LET sorted == StableSort(values, LAMBDA a, b : a < b)
             index10 == (Len(sorted) - 1) * qTenths
             low == index10 \div 10
             weight10 == index10 % 10
             delta == IF weight10 = 0 THEN 0 ELSE sorted[low + 2] - sorted[low + 1]
             rest == (delta % 10) * weight10
         IN  IF weight10 = 0 THEN <<sorted[low + 1], 0>>
             ELSE IF delta = 0
             THEN <<sorted[low + 1], IF roundsAbove /\ weight10 # 5 THEN 1 ELSE 0>>
             ELSE <<sorted[low + 1] + (delta \div 10) * weight10 + (rest \div 10), rest % 10>>

\* the percentile index falls between two equal scores, with a weight other than 1/2
tiedInterpolation(values, qTenths) ==
    /\ Len(values) > 0
    /\ LET sorted == StableSort(values, LAMBDA a, b : a < b)
           index10 == (Len(sorted) - 1) * qTenths
       IN  /\ index10 % 10 \notin {0, 5}
           /\ sorted[(index10 \div 10) + 2] = sorted[(index10 \div 10) + 1]

\* score < threshold, for a threshold <<units, tenths>>
Below(score, threshold) == score < threshold[1] \/ (score = threshold[1] /\ threshold[2] > 0)

\* sum of idf * fieldWeight over the non-stoplisted overlap tags
scoreTags(overlapTags, idfByTag, fieldWeight) ==
    LET scoredTags == SelectSeq(overlapTags, LAMBDA tag : tag \notin STOPLIST)
    IN  IF Len(scoredTags) = 0 THEN 0
        ELSE SumSeq([i \in DOMAIN scoredTags |->
                        MulDiv(IF scoredTags[i] \in DOMAIN idfByTag THEN idfByTag[scoredTags[i]] ELSE 0,
                               fieldWeight, 100)])

\* jaccardSimilarity dividing by the size of the smaller set instead of the union
jaccardOverlapCoefficient(left, right) ==
    LET a == SeqToSet(left)
        b == SeqToSet(right)
        intersection == Cardinality(a \cap b)
        smaller == IF Cardinality(a) <= Cardinality(b) THEN Cardinality(a) ELSE Cardinality(b)
    IN  IF a = {} /\ b = {} THEN <<0, 1>>
        ELSE IF smaller = 0 THEN <<0, 1>> ELSE <<intersection, smaller>>

\* the similarity as the pair <<intersection, union>>; <<0, 1>> stands for 0
jaccardSimilarity(left, right) ==
    LET a == SeqToSet(left)
        b == SeqToSet(right)
        intersection == Cardinality(a \cap b)
        union == Cardinality(a) + Cardinality(b) - intersection
    IN  IF a = {} /\ b = {} THEN <<0, 1>>
        ELSE IF union = 0 THEN <<0, 1>> ELSE <<intersection, union>>

computeDf(skills) ==
    LET unionTags(skill) ==
            SeqToSet(normalizeTags(skill.inputsTags \o skill.artifactsTags \o skill.capabilitiesTags))
        allTags == UNION {unionTags(skills[i]) : i \in DOMAIN skills}
    IN  [tag \in allTags |-> Cardinality({i \in DOMAIN skills : tag \in unionTags(skills[i])})]

computeIdf(skills, df) == [tag \in DOMAIN df |-> smoothIdf(Len(skills), df[tag])]

\* hasSpecificNonStopTag without the document-frequency ceiling
hasSpecificNonStopTagAnyDf(tag, df, specificDfMax) ==
    IF tag \in STOPLIST THEN FALSE
    ELSE tag \in DOMAIN df /\ df[tag] # 0

hasSpecificNonStopTag(tag, df, specificDfMax) ==
    IF tag \in STOPLIST THEN FALSE
    ELSE tag \in DOMAIN df /\ df[tag] # 0 /\ df[tag] <= specificDfMax

\* result: the accepted tags (ok) or null with the drop reason it counted
validateOverlapTags(overlapTags, df, specificDfMax, artifactInterfaceOnly) ==
    LET narrowedByInterface ==
            IF artifactInterfaceOnly
            THEN SelectSeq(overlapTags, LAMBDA tag : tag \in ARTIFACT_INTERFACE_SET)
            ELSE overlapTags
        nonStopTags == SelectSeq(narrowedByInterface, LAMBDA tag : tag \notin STOPLIST)
        hasSpecific == \E i \in DOMAIN nonStopTags : hasSpecificNonStopTag(nonStopTags[i], df, specificDfMax)
    IN  IF Len(overlapTags) = 0 THEN [ok |-> FALSE, tags |-> <<>>, drop |-> "none"]
        ELSE IF Len(narrowedByInterface) = 0 THEN [ok |-> FALSE, tags |-> <<>>, drop |-> "spec"]
        ELSE IF Len(nonStopTags) = 0 THEN [ok |-> FALSE, tags |-> <<>>, drop |-> "stoplist"]
        ELSE IF ~hasSpecific THEN [ok |-> FALSE, tags |-> <<>>, drop |-> "spec"]
        ELSE [ok |-> TRUE, tags |-> normalizeTags(nonStopTags), drop |-> "none"]

NoDrops ==
    [stoplist |-> 0, spec |-> 0, threshold |-> 0, topK |-> 0, stage |-> 0,
     similarity |-> 0, reciprocalDependsOn |-> 0]

Count(dropReasons, reason) ==
    IF reason = "none" THEN dropReasons ELSE [dropReasons EXCEPT ![reason] = @ + 1]

EdgeCandidate(from, to, type, score, overlapTags) ==
    [from |-> from, to |-> to, type |-> type, score |-> score, overlapTags |-> overlapTags]

\* the ceiling of the specificity filter taken one too low
specificDfMaxStrict(n) == Max2(1, ((n * SPECIFIC_DF_RATIO_TENTHS) \div 10) - 1)

\* Math.ceil where the source has Math.floor
specificDfMaxCeil(n) == Max2(1, (n * SPECIFIC_DF_RATIO_TENTHS + 9) \div 10)

specificDfMaxOf(n) == Max2(1, (n * SPECIFIC_DF_RATIO_TENTHS) \div 10)

(***************************************************************************)
(* collectCandidates                                                       *)
(***************************************************************************)
\* body of the first loop nest, for one (source, target); acc = [candidates, dropReasons]
collectDirectedPair(source, target, df, idfByTag, specificDfMax, acc) ==
    IF source.id = target.id THEN acc
    ELSE
    LET overlap == intersectTags(source.artifactsTags, target.inputsTags)
        dependsOverlap == validateOverlapTags(overlap, df, specificDfMax, TRUE)
        afterDepends ==
            [candidates |->
                IF dependsOverlap.ok
                THEN Append(acc.candidates,
                            EdgeCandidate(source.id, target.id, "depends_on",
                                          scoreTags(dependsOverlap.tags, idfByTag, FIELD_WEIGHTS.artifacts),
                                          dependsOverlap.tags))
                ELSE acc.candidates,
             dropReasons |-> Count(acc.dropReasons, dependsOverlap.drop)]
        precedesOverlap == validateOverlapTags(overlap, df, specificDfMax, TRUE)
    IN  IF STAGE_ORDER(source.stage) >= STAGE_ORDER(target.stage)
        THEN [afterDepends EXCEPT !.dropReasons = Count(@, "stage")]
        ELSE [candidates |->
                IF precedesOverlap.ok
                THEN Append(afterDepends.candidates,
                            EdgeCandidate(source.id, target.id, "precedes",
                                          scoreTags(precedesOverlap.tags, idfByTag, FIELD_WEIGHTS.artifacts),
                                          precedesOverlap.tags))
                ELSE afterDepends.candidates,
              dropReasons |-> Count(afterDepends.dropReasons, precedesOverlap.drop)]

\* body of the second loop nest, for one (left, right) with i < j
collectUndirectedPair(left, right, df, idfByTag, specificDfMax, acc) ==
    LET overlap == intersectTags(left.capabilitiesTags, right.capabilitiesTags)
        complementsOverlap == validateOverlapTags(overlap, df, specificDfMax, FALSE)
        hasHighIdfSpecific ==
            \E i \in DOMAIN complementsOverlap.tags :
                LET tag == complementsOverlap.tags[i]
                IN  /\ hasSpecificNonStopTag(tag, df, specificDfMax)
                    /\ (IF tag \in DOMAIN idfByTag THEN idfByTag[tag] ELSE 0) >= SPECIFIC_IDF_MIN
        afterComplements ==
            IF ~complementsOverlap.ok
            THEN [acc EXCEPT !.dropReasons = Count(@, complementsOverlap.drop)]
            ELSE IF ~hasHighIdfSpecific
            THEN [acc EXCEPT !.dropReasons = Count(@, "spec")]
            ELSE [acc EXCEPT !.candidates =
                    Append(@, EdgeCandidate(left.id, right.id, "complements",
                                            scoreTags(complementsOverlap.tags, idfByTag, FIELD_WEIGHTS.capabilities),
                                            complementsOverlap.tags))]
        leftCaps == SelectSeq(normalizeTags(left.capabilitiesTags), LAMBDA tag : tag \notin STOPLIST)
        rightCaps == SelectSeq(normalizeTags(right.capabilitiesTags), LAMBDA tag : tag \notin STOPLIST)
        similarity == jaccardSimilarity(leftCaps, rightCaps)
        alternativeOverlap == validateOverlapTags(overlap, df, specificDfMax, FALSE)
        baseScore == scoreTags(alternativeOverlap.tags, idfByTag, FIELD_WEIGHTS.capabilities)
        \* baseScore * (1 + similarity)
        score == MulDiv(baseScore, similarity[2] + similarity[1], similarity[2])
    IN  IF Abs(STAGE_ORDER(left.stage) - STAGE_ORDER(right.stage)) > 1
        THEN [afterComplements EXCEPT !.dropReasons = Count(@, "stage")]
        ELSE IF similarity[1] * 10 < ALTERNATIVE_SIMILARITY_MIN_TENTHS * similarity[2]
        THEN [afterComplements EXCEPT !.dropReasons = Count(@, "similarity")]
        ELSE IF ~alternativeOverlap.ok
        THEN [afterComplements EXCEPT !.dropReasons = Count(@, alternativeOverlap.drop)]
        ELSE [afterComplements EXCEPT !.candidates =
                Append(@, EdgeCandidate(left.id, right.id, "alternative_to", score, alternativeOverlap.tags))]

\* the (i, j) index pairs in the order a loop nest over all entries visits them
IndexPairs(n) == [k \in 1..(n * n) |-> <<((k - 1) \div n) + 1, ((k - 1) % n) + 1>>]

EmptyAcc == [candidates |-> <<>>, dropReasons |-> NoDrops]

\* Every iteration of the two loop nests only appends candidates and adds to the
\* counters, so a loop nest returns the concatenation and the sums of what its
\* iterations contribute, in iteration order.
Combine(start, contributions) ==
    LET parts == SubSeq(contributions, 1, Len(contributions))
    IN  [candidates |-> start.candidates \o FlattenSeq([k \in DOMAIN parts |-> parts[k].candidates]),
         dropReasons |->
            [reason \in DOMAIN NoDrops |->
                start.dropReasons[reason] + SumSeq([k \in DOMAIN parts |-> parts[k].dropReasons[reason]])]]

\* for (const source of skills) for (const target of skills)
collectDirectedLoop(skills, df, idfByTag, specificDfMax, acc) ==
    LET pairs == IndexPairs(Len(skills))
    IN  Combine(acc, [k \in DOMAIN pairs |->
                        collectDirectedPair(skills[pairs[k][1]], skills[pairs[k][2]],
                                            df, idfByTag, specificDfMax, EmptyAcc)])

\* for (i = 0; ...) for (j = i + 1; ...)
collectUndirectedLoop(skills, df, idfByTag, specificDfMax, acc) ==
    LET pairs == SelectSeq(IndexPairs(Len(skills)), LAMBDA pr : pr[1] < pr[2])
    IN  Combine(acc, [k \in DOMAIN pairs |->
                        collectUndirectedPair(skills[pairs[k][1]], skills[pairs[k][2]],
                                              df, idfByTag, specificDfMax, EmptyAcc)])

\* result: [candidates, dropReasons]
collectCandidates(skills, df, idfByTag, dropReasons) ==
    LET specificDfMax == specificDfMaxOf(Len(skills))
        directed == collectDirectedLoop(skills, df, idfByTag, specificDfMax,
                                        [candidates |-> <<>>, dropReasons |-> dropReasons])
    IN  collectUndirectedLoop(skills, df, idfByTag, specificDfMax, directed)

(***************************************************************************)
(* thresholdCandidates, resolveReciprocalDepends, mergeUndirectedCandidates *)
(***************************************************************************)
\* max(ABS_THRESHOLD, percentile(scores, 0.7)), as <<units, tenths>>
thresholdOf(candidates, roundsAbove) ==
    LET p == percentile([i \in DOMAIN candidates |-> candidates[i].score],
                        PERCENTILE_THRESHOLD_TENTHS, roundsAbove)
    IN  IF p[1] >= ABS_THRESHOLD THEN p ELSE <<ABS_THRESHOLD, 0>>

\* result: [kept, threshold, dropReasons]
thresholdCandidates(candidates, dropReasons, roundsAbove) ==
    LET threshold == thresholdOf(candidates, roundsAbove)
        kept == SelectSeq(candidates, LAMBDA candidate : ~Below(candidate.score, threshold))
    IN  [kept |-> kept, threshold |-> threshold,
         dropReasons |-> [dropReasons EXCEPT !.threshold = @ + (Len(candidates) - Len(kept))]]

\* [a, b].sort() of two ids
sortedPair(a, b) == IF a <= b THEN <<a, b>> ELSE <<b, a>>

\* new Map(skills.map(skill => [skill.id, skill])): the last entry with an id wins
skillById(skills, id) ==
    skills[CHOOSE i \in DOMAIN skills :
              /\ skills[i].id = id
              /\ \A j \in DOMAIN skills : skills[j].id = id => j <= i]

stageRank(skills, id) ==
    IF \E i \in DOMAIN skills : skills[i].id = id THEN STAGE_ORDER(skillById(skills, id).stage)
    ELSE STAGE_ORDER("other")

\* the best candidate of one direction in a bucket: the first one of maximal score
bestOfDirection(bucket, direction) ==
    LET same == SelectSeq(bucket, LAMBDA c : <<c.from, c.to>> = direction)
    IN  same[CHOOSE i \in DOMAIN same :
                /\ \A j \in DOMAIN same : same[j].score <= same[i].score
                /\ \A j \in DOMAIN same : j < i => same[j].score < same[i].score]

\* resolveBucket without the two stage tests: the scores alone decide
resolveBucketByScore(bucket, skills, acc) ==
    IF Len(bucket) = 1 THEN [acc EXCEPT !.keptDepends = Append(@, bucket[1])]
    ELSE
    LET directions == Dedupe([i \in DOMAIN bucket |-> <<bucket[i].from, bucket[i].to>>])
        directionBest == [i \in DOMAIN directions |-> bestOfDirection(bucket, directions[i])]
        acc1 == [acc EXCEPT !.dropReasons.reciprocalDependsOn = @ + (Len(bucket) - Len(directions))]
        ordered == StableSort(directionBest,
                              LAMBDA a, b : a.from < b.from \/ (a.from = b.from /\ a.to < b.to))
        first == ordered[1]
        second == ordered[2]
        pair == sortedPair(first.from, first.to)
    IN  IF Len(directionBest) = 1
        THEN [acc1 EXCEPT !.keptDepends = Append(@, directionBest[1])]
        ELSE IF Abs(first.score - second.score) <= RECIPROCAL_SCORE_EPSILON
        THEN [acc1 EXCEPT !.promotedComplements =
                              Append(@, EdgeCandidate(pair[1], pair[2], "complements",
                                                      Half(first.score, second.score),
                                                      normalizeTags(first.overlapTags \o second.overlapTags))),
                          !.dropReasons.reciprocalDependsOn = @ + 2]
        ELSE [acc1 EXCEPT !.keptDepends = Append(@, IF first.score >= second.score THEN first ELSE second),
                          !.dropReasons.reciprocalDependsOn = @ + 1]

\* one iteration of the loop over byPair.values(); acc = [keptDepends, promotedComplements, dropReasons]
resolveBucket(bucket, skills, acc) ==
    IF Len(bucket) = 1 THEN [acc EXCEPT !.keptDepends = Append(@, bucket[1])]
    ELSE
    LET directions == Dedupe([i \in DOMAIN bucket |-> <<bucket[i].from, bucket[i].to>>])
        directionBest == [i \in DOMAIN directions |-> bestOfDirection(bucket, directions[i])]
        dropped == Len(bucket) - Len(directions)
        acc1 == [acc EXCEPT !.dropReasons.reciprocalDependsOn = @ + dropped]
        ordered == StableSort(directionBest,
                              LAMBDA a, b : a.from < b.from \/ (a.from = b.from /\ a.to < b.to))
        first == ordered[1]
        second == ordered[2]
        firstDelta == stageRank(skills, first.to) - stageRank(skills, first.from)
        secondDelta == stageRank(skills, second.to) - stageRank(skills, second.from)
        scoreDelta == Abs(first.score - second.score)
        pair == sortedPair(first.from, first.to)
        winner == IF first.score >= second.score THEN first ELSE second
    IN  IF Len(directionBest) = 1
        THEN [acc1 EXCEPT !.keptDepends = Append(@, directionBest[1])]
        ELSE IF firstDelta > 0 /\ secondDelta <= 0
        THEN [acc1 EXCEPT !.keptDepends = Append(@, first), !.dropReasons.reciprocalDependsOn = @ + 1]
        ELSE IF secondDelta > 0 /\ firstDelta <= 0
        THEN [acc1 EXCEPT !.keptDepends = Append(@, second), !.dropReasons.reciprocalDependsOn = @ + 1]
        ELSE IF scoreDelta <= RECIPROCAL_SCORE_EPSILON
        THEN [acc1 EXCEPT !.promotedComplements =
                              Append(@, EdgeCandidate(pair[1], pair[2], "complements",
                                                      Half(first.score, second.score),
                                                      normalizeTags(first.overlapTags \o second.overlapTags))),
                          !.dropReasons.reciprocalDependsOn = @ + 2]
        ELSE [acc1 EXCEPT !.keptDepends = Append(@, winner), !.dropReasons.reciprocalDependsOn = @ + 1]

RECURSIVE resolveBuckets(_, _, _, _, _)
resolveBuckets(keys, k, depends, skills, acc) ==
    IF k > Len(keys) THEN acc
    ELSE resolveBuckets(keys, k + 1, depends, skills,
            resolveBucket(SelectSeq(depends, LAMBDA c : sortedPair(c.from, c.to) = keys[k]), skills, acc))

\* resolveReciprocalDepends bucketing by the directed key from->to instead of the
\* sorted pair: the best candidate of each direction is kept
resolveReciprocalDependsByDirection(candidates, skills, dropReasons) ==
    LET nonDepends == SelectSeq(candidates, LAMBDA c : c.type # "depends_on")
        depends == SelectSeq(candidates, LAMBDA c : c.type = "depends_on")
        keys == Dedupe([i \in DOMAIN depends |-> <<depends[i].from, depends[i].to>>])
    IN  [directed |-> nonDepends \o [k \in DOMAIN keys |-> bestOfDirection(depends, keys[k])],
         promotedComplements |-> <<>>,
         dropReasons |-> [dropReasons EXCEPT !.reciprocalDependsOn = @ + (Len(depends) - Len(keys))]]

\* result: [directed, promotedComplements, dropReasons]
resolveReciprocalDepends(candidates, skills, dropReasons) ==
    LET nonDepends == SelectSeq(candidates, LAMBDA c : c.type # "depends_on")
        depends == SelectSeq(candidates, LAMBDA c : c.type = "depends_on")
        keys == Dedupe([i \in DOMAIN depends |-> sortedPair(depends[i].from, depends[i].to)])
        resolved == resolveBuckets(keys, 1, depends, skills,
                        [keptDepends |-> <<>>, promotedComplements |-> <<>>, dropReasons |-> dropReasons])
    IN  [directed |-> nonDepends \o resolved.keptDepends,
         promotedComplements |-> resolved.promotedComplements,
         dropReasons |-> resolved.dropReasons]

RECURSIVE mergeInto(_, _, _)
mergeInto(existing, rest, k) ==
    IF k > Len(rest) THEN existing
    ELSE mergeInto([existing EXCEPT
                        !.score = Max2(@, rest[k].score),
                        !.overlapTags = normalizeTags(@ \o normalizeTags(rest[k].overlapTags))],
                   rest, k + 1)

mergeUndirectedCandidates(candidates, type) ==
    LET ofType == SelectSeq(candidates, LAMBDA c : c.type = type)
        keys == Dedupe([i \in DOMAIN ofType |-> sortedPair(ofType[i].from, ofType[i].to)])
        group(key) == SelectSeq(ofType, LAMBDA c : sortedPair(c.from, c.to) = key)
        merged(key) ==
            LET g == group(key)
                head == [g[1] EXCEPT !.from = key[1], !.to = key[2],
                                     !.overlapTags = normalizeTags(g[1].overlapTags)]
            IN  mergeInto(head, g, 2)
    IN  [i \in DOMAIN keys |-> merged(keys[i])]

(***************************************************************************)
(* pruneDirected, pruneUndirected                                          *)
(***************************************************************************)
\* pruneDirected ranking a group by target id alone
pruneDirectedByTarget(candidates) ==
    LET keys == Dedupe([i \in DOMAIN candidates |-> <<candidates[i].from, candidates[i].type>>])
        keptOf(key) ==
            LET sorted == StableSort(SelectSeq(candidates, LAMBDA c : <<c.from, c.type>> = key),
                                     LAMBDA a, b : a.to < b.to)
            IN  SubSeq(sorted, 1, IF Len(sorted) < TOP_K(key[2]) THEN Len(sorted) ELSE TOP_K(key[2]))
        kept == FlattenSeq([i \in DOMAIN keys |-> keptOf(keys[i])])
    IN  [kept |-> kept, dropped |-> Len(candidates) - Len(kept)]

\* result: [kept, dropped]
pruneDirected(candidates) ==
    LET keys == Dedupe([i \in DOMAIN candidates |-> <<candidates[i].from, candidates[i].type>>])
        bucket(key) ==
            StableSort(SelectSeq(candidates, LAMBDA c : <<c.from, c.type>> = key),
                       LAMBDA a, b : a.score > b.score \/ (a.score = b.score /\ a.to < b.to))
        keptOf(key) ==
            LET sorted == bucket(key)
                limit == TOP_K(sorted[1].type)
            IN  SubSeq(sorted, 1, IF Len(sorted) < limit THEN Len(sorted) ELSE limit)
        kept == FlattenSeq([i \in DOMAIN keys |-> keptOf(keys[i])])
    IN  [kept |-> kept, dropped |-> Len(candidates) - Len(kept)]

degreeIn(kept, node) ==
    Cardinality({i \in DOMAIN kept : kept[i].from = node}) +
    Cardinality({i \in DOMAIN kept : kept[i].to = node})

RECURSIVE pruneUndirectedLoop(_, _, _, _)
pruneUndirectedLoop(sorted, k, limit, kept) ==
    IF k > Len(sorted) THEN kept
    ELSE LET candidate == sorted[k]
             fromDegree == degreeIn(kept, candidate.from)
             \* degreeByNode.get(candidate.to) is read before the two set() calls
             toDegree == degreeIn(kept, candidate.to)
         IN  pruneUndirectedLoop(sorted, k + 1, limit,
                IF fromDegree >= limit \/ toDegree >= limit THEN kept ELSE Append(kept, candidate))

\* pruneUndirected testing the degree of the edge's target only
pruneUndirectedTargetOnly(candidates, type) ==
    LET sorted == StableSort(candidates,
                      LAMBDA a, b : \/ a.score > b.score
                                    \/ (a.score = b.score /\ a.from < b.from)
                                    \/ (a.score = b.score /\ a.from = b.from /\ a.to < b.to))
        RECURSIVE loop(_, _)
        loop(k, kept) ==
            IF k > Len(sorted) THEN kept
            ELSE loop(k + 1, IF degreeIn(kept, sorted[k].to) >= TOP_K(type) THEN kept
                             ELSE Append(kept, sorted[k]))
        kept == loop(1, <<>>)
    IN  [kept |-> kept, dropped |-> Len(candidates) - Len(kept)]

\* result: [kept, dropped]
pruneUndirected(candidates, type) ==
    LET sorted == StableSort(candidates,
                      LAMBDA a, b : \/ a.score > b.score
                                    \/ (a.score = b.score /\ a.from < b.from)
                                    \/ (a.score = b.score /\ a.from = b.from /\ a.to < b.to))
        kept == pruneUndirectedLoop(sorted, 1, TOP_K(type), <<>>)
    IN  [kept |-> kept, dropped |-> Len(candidates) - Len(kept)]

(***************************************************************************)
(* buildChains, buildMetrics, buildSkillGraph                              *)
(***************************************************************************)
\* dfs recording a path also where every next node is already on it
RECURSIVE dfsRecordingDeadEnds(_, _, _)
dfsRecordingDeadEnds(adjacency, node, path) ==
    LET next == IF node \in DOMAIN adjacency THEN adjacency[node] ELSE <<>>
        tried == SubSeq(next, 1, IF Len(next) < 4 THEN Len(next) ELSE 4)
    IN  IF \A k \in DOMAIN tried : Includes(path, tried[k]) THEN <<path>>
        ELSE FlattenSeq([k \in DOMAIN tried |->
                            IF Includes(path, tried[k]) THEN <<>>
                            ELSE dfsRecordingDeadEnds(adjacency, tried[k], Append(path, tried[k]))])

RECURSIVE dfs(_, _, _)
dfs(adjacency, node, path) ==
    LET next == IF node \in DOMAIN adjacency THEN adjacency[node] ELSE <<>>
        tried == SubSeq(next, 1, IF Len(next) < 4 THEN Len(next) ELSE 4)
    IN  IF Len(next) = 0 THEN <<path>>
        ELSE FlattenSeq([k \in DOMAIN tried |->
                            IF Includes(path, tried[k]) THEN <<>>
                            ELSE dfs(adjacency, tried[k], Append(path, tried[k]))])

\* keyOrder: Object.keys(adjacency), the ids in order of first insertion
buildChains(adjacency, keyOrder) ==
    LET hasIncoming == UNION {SeqToSet(adjacency[node]) : node \in DOMAIN adjacency}
        starts == SelectSeq(keyOrder, LAMBDA node : node \notin hasIncoming)
        roots == SubSeq(starts, 1, IF Len(starts) < 30 THEN Len(starts) ELSE 30)
        chains == FlattenSeq([k \in DOMAIN roots |-> dfs(adjacency, roots[k], <<roots[k]>>)])
        long == SelectSeq(chains, LAMBDA chain : Len(chain) > 1)
        sorted == StableSort(long, LAMBDA a, b : Len(a) > Len(b))
    IN  SubSeq(sorted, 1, IF Len(sorted) < 20 THEN Len(sorted) ELSE 20)

\* Number(score.toFixed(4)): the score rounded to four decimals
toFixed4(score) == ((score + 5000) \div 10000) * 10000

toEdge(candidate) == [candidate EXCEPT !.score = toFixed4(candidate.score)]

buildMetrics(skills, edges, relatedBySkill, inDegree, outDegree, dropReasons, threshold, candidateCount) ==
    LET distributionByType ==
            [type \in EdgeTypes |-> Cardinality({i \in DOMAIN edges : edges[i].type = type})]
        nodes == [i \in DOMAIN skills |->
                    [id |-> skills[i].id,
                     degree |-> Len(relatedBySkill[skills[i].id]),
                     inDegree |-> inDegree[skills[i].id],
                     outDegree |-> outDegree[skills[i].id]]]
        sorted == StableSort(nodes,
                      LAMBDA a, b : \/ a.degree > b.degree
                                    \/ (a.degree = b.degree /\ a.outDegree > b.outDegree)
                                    \/ (a.degree = b.degree /\ a.outDegree = b.outDegree /\ a.id < b.id))
        n == Len(skills)
    IN  [edgeCount |-> Len(edges),
         \* edgeCount / (n * (n - 1)) as <<numerator, denominator>>
         density |-> IF n > 1 THEN <<Len(edges), n * (n - 1)>> ELSE <<0, 1>>,
         distributionByType |-> distributionByType,
         topDegreeNodes |-> SubSeq(sorted, 1, IF Len(sorted) < 10 THEN Len(sorted) ELSE 10),
         dropReasons |-> dropReasons,
         threshold |-> threshold,
         candidateCount |-> candidateCount]

\* buildSkillGraph from the sort of the edges on: adjacency, related entries,
\* chains and metrics
graphOfEdges(skills, edges, dropReasons, threshold, candidateCount) ==
    LET ids == {skills[i].id : i \in DOMAIN skills}
        keyOrder == Dedupe([i \in DOMAIN skills |-> skills[i].id])
        directedEdges == SelectSeq(edges, LAMBDA e : e.type \in DIRECTED_TYPES)
        adjacency == [id \in ids |->
                        LET out == SelectSeq(directedEdges, LAMBDA e : e.from = id)
                        IN  Dedupe([k \in DOMAIN out |-> out[k].to])]
        outDegree == [id \in ids |-> Len(SelectSeq(directedEdges, LAMBDA e : e.from = id))]
        inDegree == [id \in ids |-> Len(SelectSeq(directedEdges, LAMBDA e : e.to = id))]
        relatedOf(id) ==
            FlattenSeq([k \in DOMAIN edges |->
                (IF edges[k].from = id THEN <<edges[k].to>> ELSE <<>>)
                    \o (IF edges[k].to = id THEN <<edges[k].from>> ELSE <<>>)])
        relatedBySkill == [id \in ids |-> Dedupe(relatedOf(id))]
    IN  [edges |-> edges,
         adjacency |-> adjacency,
         relatedBySkill |-> relatedBySkill,
         chains |-> buildChains(adjacency, keyOrder),
         metrics |-> buildMetrics(skills, edges, relatedBySkill, inDegree, outDegree,
                                  dropReasons, threshold, candidateCount)]

\* buildSkillGraph from the three pruned candidate lists on
graphOfPruned(skills, resolvedDrops, prunedDirected, prunedComplements, prunedAlternatives, threshold, candidateCount) ==
    LET keptCandidates == prunedDirected.kept \o prunedComplements.kept \o prunedAlternatives.kept
        dropReasons ==
            [resolvedDrops EXCEPT
                !.topK = @ + prunedDirected.dropped + prunedComplements.dropped + prunedAlternatives.dropped]
        edges == StableSort([i \in DOMAIN keptCandidates |-> toEdge(keptCandidates[i])],
                     LAMBDA a, b : \/ a.score > b.score
                                   \/ (a.score = b.score /\ a.from < b.from)
                                   \/ (a.score = b.score /\ a.from = b.from /\ a.to < b.to))
    IN  graphOfEdges(skills, edges, dropReasons, threshold, candidateCount)

\* buildSkillGraph from the resolution of reciprocal depends_on pairs on
graphOfResolved(skills, kept, reciprocalResolution, threshold, candidateCount) ==
    LET undirectedComplements ==
            mergeUndirectedCandidates(
                SelectSeq(kept, LAMBDA c : c.type = "complements")
                    \o reciprocalResolution.promotedComplements,
                "complements")
        undirectedAlternatives == SelectSeq(kept, LAMBDA c : c.type = "alternative_to")
    IN  graphOfPruned(skills, reciprocalResolution.dropReasons,
                      pruneDirected(reciprocalResolution.directed),
                      pruneUndirected(undirectedComplements, "complements"),
                      pruneUndirected(mergeUndirectedCandidates(undirectedAlternatives, "alternative_to"),
                                      "alternative_to"),
                      threshold, candidateCount)

\* buildSkillGraph from the thresholded candidates on
graphOfThresholded(skills, thresholded, candidateCount) ==
    LET directed == SelectSeq(thresholded.kept, LAMBDA c : c.type \in DIRECTED_TYPES)
    IN  graphOfResolved(skills, thresholded.kept,
                        resolveReciprocalDepends(directed, skills, thresholded.dropReasons),
                        thresholded.threshold, candidateCount)

\* buildSkillGraph from the collected candidates on
graphOfCollected(skills, collected, roundsAbove) ==
    graphOfThresholded(skills,
                       thresholdCandidates(collected.candidates, collected.dropReasons, roundsAbove),
                       Len(collected.candidates))

\* the candidates buildSkillGraph passes to resolveReciprocalDepends
directedOf(collected, roundsAbove) ==
    SelectSeq(thresholdCandidates(collected.candidates, collected.dropReasons, roundsAbove).kept,
              LAMBDA c : c.type \in DIRECTED_TYPES)

\* collectCandidates on the document frequencies of the catalog
collectedOf(skills, df) == collectCandidates(skills, df, computeIdf(skills, df), NoDrops)

\* the candidates of a catalog, as collectCandidates returns them
candidatesOf(skills) == collectedOf(skills, computeDf(skills)).candidates

buildSkillGraph(skills, roundsAbove) ==
    graphOfCollected(skills, collectedOf(skills, computeDf(skills)), roundsAbove)

(***************************************************************************)
(* Tag normalizer: strings                                                 *)
(*                                                                         *)
(* A tag is a TLA+ string where the source holds a string of one of its    *)
(* tables; the functions that look inside a string (regular expressions,   *)
(* split, includes, the edit distance) work on its sequence of characters, *)
(* which Chars gives for every string literal of the tables and of the raw *)
(* tags the model feeds in.  Raw tags are ASCII.                           *)
(***************************************************************************)
LowerLetters ==
    <<"a", "b", "c", "d", "e", "f", "g", "h", "i", "j", "k", "l", "m",
      "n", "o", "p", "q", "r", "s", "t", "u", "v", "w", "x", "y", "z">>

UpperLetters ==
    <<"A", "B", "C", "D", "E", "F", "G", "H", "I", "J", "K", "L", "M",
      "N", "O", "P", "Q", "R", "S", "T", "U", "V", "W", "X", "Y", "Z">>

Digits == {"0", "1", "2", "3", "4", "5", "6", "7", "8", "9"}

\* \s
Whitespace == {" ", "\t", "\n", "\r", "\f"}

\* String.prototype.toLowerCase
toLowerCase(s) ==
    [i \in DOMAIN s |->
        IF \E k \in DOMAIN UpperLetters : UpperLetters[k] = s[i]
        THEN LowerLetters[CHOOSE k \in DOMAIN UpperLetters : UpperLetters[k] = s[i]]
        ELSE s[i]]

\* s.replace(/[class]+/g, with): every maximal run of class characters becomes `with`
replaceRuns(s, InClass(_), with) ==
    FlattenSeq([i \in DOMAIN s |->
                   IF ~InClass(s[i]) THEN <<s[i]>>
                   ELSE IF i > 1 /\ InClass(s[i - 1]) THEN <<>>
                   ELSE with])

\* String.prototype.trim
trim(s) ==
    LET inner == {i \in DOMAIN s : s[i] \notin Whitespace}
    IN  IF inner = {} THEN <<>>
        ELSE SubSeq(s, CHOOSE i \in inner : \A j \in inner : i <= j,
                       CHOOSE i \in inner : \A j \in inner : i >= j)

\* s.split(' ').filter(Boolean)
splitWords(s) ==
    LET starts == {i \in DOMAIN s : s[i] # " " /\ (i = 1 \/ s[i - 1] = " ")}
        endOf(i) == CHOOSE j \in i..Len(s) :
                        /\ \A k \in i..j : s[k] # " "
                        /\ (j = Len(s) \/ s[j + 1] = " ")
    IN  [k \in 1..Cardinality(starts) |->
            LET i == CHOOSE i \in starts : Cardinality({x \in starts : x < i}) = k - 1
            IN  SubSeq(s, i, endOf(i))]

\* String.prototype.includes
includesText(s, part) ==
    \E i \in 1..(Len(s) - Len(part) + 1) : SubSeq(s, i, i + Len(part) - 1) = part

\* s.split(separator)
splitOn(s, separator) ==
    LET cuts == {i \in DOMAIN s : s[i] = separator}
        edges == <<0>> \o [k \in 1..Cardinality(cuts) |->
                              CHOOSE i \in cuts : Cardinality({x \in cuts : x < i}) = k - 1]
                      \o <<Len(s) + 1>>
    IN  [k \in 1..(Len(edges) - 1) |-> SubSeq(s, edges[k] + 1, edges[k + 1] - 1)]

(***************************************************************************)
(* Tag normalizer: src/unnamed/part_004 (tagVocabulary)                    *)
(***************************************************************************)
TAG_VOCAB ==
    <<
      "requirements", "planning", "workflow", "tasks", "automation", "integration", "repo",
      "files", "api", "rest", "graphql", "webhook", "auth", "oauth", "security", "privacy",
      "compliance", "risk", "audit", "plan", "spec", "schema", "code", "patch", "tests",
      "docs", "config", "report", "pr", "debugging", "refactor", "performance", "monitoring",
      "observability", "logging", "ci-cd", "deploy", "docker", "kubernetes", "serverless",
      "nodejs", "typescript", "javascript", "python", "go", "rust", "java", "react", "nextjs",
      "frontend", "backend", "database", "db", "sql", "nosql", "vector-db", "rag", "llm",
      "prompting", "agents", "mcp", "tooling", "cli", "scripts", "readme", "changelog",
      "guides", "templates", "examples", "architecture", "diagram", "mermaid", "ui", "ux",
      "design", "accessibility", "seo", "analytics", "dashboard", "reporting", "documents",
      "export", "csv", "json", "yaml", "markdown", "pdf", "docx", "pptx", "image", "video",
      "audio", "notebook", "notion", "slack", "discord", "telegram", "github", "jira",
      "file-ops", "data-extraction", "data-transform", "validation", "quality" >>

VOCAB_SET == SeqToSet(TAG_VOCAB)

ARTIFACT_TAGS_ALLOWED ==
    SeqToSet(ARTIFACT_INTERFACE_TAGS) \cup
    {"guides", "templates", "examples", "diagram", "scripts", "export", "csv", "json", "yaml",
     "markdown", "pdf", "docx", "pptx", "image", "video", "audio"}

INPUT_TAGS_ALLOWED == SeqToSet(TAG_VOCAB)

CAPABILITY_TAGS_ALLOWED == SeqToSet(TAG_VOCAB)

\* the entries <<key, value>> of the object, in source order
ARTIFACT_FIELD_AUTOCORRECT ==
    <<
      <<"workflow", "plan">>, <<"planning", "plan">>, <<"tasks", "plan">>,
      <<"requirements", "spec">>, <<"architecture", "spec">>, <<"mermaid", "diagram">>,
      <<"api", "spec">>, <<"rest", "spec">>, <<"graphql", "spec">>, <<"webhook", "spec">>,
      <<"frontend", "code">>, <<"backend", "code">>, <<"ui", "spec">>, <<"ux", "spec">>,
      <<"design", "spec">>, <<"database", "schema">>, <<"db", "schema">>, <<"sql", "schema">>,
      <<"nosql", "schema">>, <<"vector-db", "schema">>, <<"llm", "docs">>,
      <<"prompting", "docs">>, <<"agents", "docs">>, <<"mcp", "config">>,
      <<"tooling", "scripts">>, <<"cli", "scripts">>, <<"automation", "scripts">>,
      <<"file-ops", "scripts">>, <<"files", "code">>, <<"data-extraction", "report">>,
      <<"data-transform", "report">>, <<"security", "report">>, <<"privacy", "report">>,
      <<"compliance", "report">>, <<"risk", "report">>, <<"audit", "report">>,
      <<"validation", "tests">>, <<"quality", "tests">>, <<"observability", "report">>,
      <<"monitoring", "report">>, <<"logging", "report">>, <<"github", "pr">>,
      <<"jira", "report">>, <<"notion", "docs">>, <<"slack", "report">>,
      <<"discord", "report">>, <<"telegram", "report">> >>

ALIAS_MAP ==
    <<
      <<"js", "javascript">>, <<"ts", "typescript">>, <<"reactjs", "react">>,
      <<"react_js", "react">>, <<"node", "nodejs">>, <<"nodejs", "nodejs">>,
      <<"node_js", "nodejs">> >>

SYNONYM_TO_TAG ==
    <<
      <<"requirement", "requirements">>, <<"requirements", "requirements">>,
      <<"spec", "spec">>, <<"specs", "spec">>, <<"specification", "spec">>,
      <<"specifications", "spec">>, <<"prd", "spec">>, <<"roadmap", "plan">>,
      <<"planning", "planning">>, <<"orchestration", "workflow">>, <<"pipeline", "workflow">>,
      <<"pipelines", "workflow">>, <<"todo", "tasks">>, <<"todos", "tasks">>,
      <<"task", "tasks">>, <<"automation", "automation">>, <<"automations", "automation">>,
      <<"integration", "integration">>, <<"integrations", "integration">>,
      <<"connector", "integration">>, <<"connectors", "integration">>,
      <<"repository", "repo">>, <<"repo", "repo">>, <<"file", "files">>, <<"files", "files">>,
      <<"endpoint", "api">>, <<"endpoints", "api">>, <<"http", "rest">>, <<"restapi", "rest">>,
      <<"graphql", "graphql">>, <<"hook", "webhook">>, <<"webhooks", "webhook">>,
      <<"authentication", "auth">>, <<"authorization", "auth">>, <<"login", "auth">>,
      <<"oauth2", "oauth">>, <<"sec", "security">>, <<"privacy", "privacy">>,
      <<"gdpr", "compliance">>, <<"hipaa", "compliance">>, <<"iso27001", "compliance">>,
      <<"risk", "risk">>, <<"audit", "audit">>, <<"schema", "schema">>,
      <<"schemas", "schema">>, <<"implementation", "code">>, <<"sourcecode", "code">>,
      <<"source", "code">>, <<"diff", "patch">>, <<"patches", "patch">>,
      <<"config", "config">>, <<"configs", "config">>, <<"configuration", "config">>,
      <<"settings", "config">>, <<"test", "tests">>, <<"testing", "tests">>, <<"qa", "tests">>,
      <<"jest", "tests">>, <<"vitest", "tests">>, <<"pytest", "tests">>,
      <<"playwright", "tests">>, <<"cypress", "tests">>, <<"report", "report">>,
      <<"reports", "report">>, <<"summary", "report">>, <<"pullrequest", "pr">>,
      <<"merge", "pr">>, <<"deploy", "deploy">>, <<"deployment", "deploy">>,
      <<"deployments", "deploy">>, <<"release", "deploy">>, <<"releases", "deploy">>,
      <<"vercel", "deploy">>, <<"netlify", "deploy">>, <<"debug", "debugging">>,
      <<"debugging", "debugging">>, <<"profiling", "performance">>,
      <<"metrics", "monitoring">>, <<"tracing", "observability">>, <<"logs", "logging">>,
      <<"logging", "logging">>, <<"cicd", "ci-cd">>, <<"ci", "ci-cd">>, <<"cd", "ci-cd">>,
      <<"container", "docker">>, <<"containers", "docker">>, <<"k8s", "kubernetes">>,
      <<"lambda", "serverless">>, <<"cloudfunctions", "serverless">>, <<"node", "nodejs">>,
      <<"node.js", "nodejs">>, <<"ts", "typescript">>, <<"js", "javascript">>,
      <<"golang", "go">>, <<"frontend", "frontend">>, <<"backend", "backend">>,
      <<"database", "database">>, <<"databases", "database">>, <<"postgresql", "db">>,
      <<"postgres", "db">>, <<"mysql", "db">>, <<"sqlite", "db">>, <<"mongo", "nosql">>,
      <<"mongodb", "nosql">>, <<"redis", "nosql">>, <<"vectordb", "vector-db">>,
      <<"embeddings", "rag">>, <<"rag", "rag">>, <<"llms", "llm">>, <<"ai", "llm">>,
      <<"prompts", "prompting">>, <<"prompt", "prompting">>, <<"agent", "agents">>,
      <<"mcpserver", "mcp">>, <<"mcpservers", "mcp">>, <<"modelcontextprotocol", "mcp">>,
      <<"tool", "tooling">>, <<"tools", "tooling">>, <<"command", "cli">>,
      <<"commands", "cli">>, <<"script", "scripts">>, <<"scripts", "scripts">>,
      <<"documentation", "docs">>, <<"docs", "docs">>, <<"readme", "readme">>,
      <<"changelog", "changelog">>, <<"guide", "guides">>, <<"guides", "guides">>,
      <<"template", "templates">>, <<"templates", "templates">>, <<"sample", "examples">>,
      <<"samples", "examples">>, <<"example", "examples">>, <<"diagram", "diagram">>,
      <<"diagrams", "diagram">>, <<"flowchart", "diagram">>, <<"mermaid", "mermaid">>,
      <<"ux", "ux">>, <<"ui", "ui">>, <<"a11y", "accessibility">>,
      <<"accessibility", "accessibility">>, <<"analytics", "analytics">>,
      <<"chart", "dashboard">>, <<"charts", "dashboard">>, <<"dashboard", "dashboard">>,
      <<"reporting", "reporting">>, <<"document", "documents">>, <<"documents", "documents">>,
      <<"doc", "documents">>, <<"exporting", "export">>, <<"exports", "export">>,
      <<"export", "export">>, <<"xlsx", "csv">>, <<"tsv", "csv">>, <<"json", "json">>,
      <<"yml", "yaml">>, <<"md", "markdown">>, <<"markdown", "markdown">>, <<"pdf", "pdf">>,
      <<"word", "docx">>, <<"docx", "docx">>, <<"powerpoint", "pptx">>, <<"ppt", "pptx">>,
      <<"slides", "pptx">>, <<"pptx", "pptx">>, <<"image", "image">>, <<"images", "image">>,
      <<"screenshot", "image">>, <<"screenshots", "image">>, <<"video", "video">>,
      <<"videos", "video">>, <<"audio", "audio">>, <<"notebooklm", "notebook">>,
      <<"notebook", "notebook">>, <<"notion", "notion">>, <<"slack", "slack">>,
      <<"discord", "discord">>, <<"telegram", "telegram">>, <<"github", "github">>,
      <<"jira", "jira">>, <<"filesystem", "file-ops">>, <<"extraction", "data-extraction">>,
      <<"parser", "data-extraction">>, <<"transform", "data-transform">>,
      <<"etl", "data-transform">>, <<"validate", "validation">>,
      <<"validation", "validation">>, <<"quality", "quality">> >>

\* <<phrase, tag>>
COMPOUND_SYNONYMS ==
    <<
      <<"requirements spec", "spec">>, <<"mcp server", "mcp">>,
      <<"model context protocol", "mcp">>, <<"pull request", "pr">>, <<"code patch", "patch">>,
      <<"output artifact", "report">>, <<"test suite", "tests">>, <<"word document", "docx">>,
      <<"power point", "pptx">>, <<"slide deck", "pptx">> >>

\* rawTags.slice(0, 24)
RAW_TAG_LIMIT == 24

\* result.slice(0, 8)
TAG_LIMIT == 8

\* the raw tags the normalizer is run on
RawTagPool ==
    <<
      "code", " Code ", "JS", "specs", "open pull request", "my tests", "kubernets", "zzz",
      "   ", "workflow", "repo", "constructor", "data-extraction", "CI/CD", "!!!", "node_js",
      "unit testing", "vector stuff", "yaml", "json", "pdf", "csv", "docs", "plan", "schema",
      "patch", "markdown", "rust", "image", "my video" >>

\* the characters of every string literal above
Chars ==
    "requirements" :> <<"r", "e", "q", "u", "i", "r", "e", "m", "e", "n", "t", "s">>
    @@ "planning" :> <<"p", "l", "a", "n", "n", "i", "n", "g">>
    @@ "workflow" :> <<"w", "o", "r", "k", "f", "l", "o", "w">>
    @@ "tasks" :> <<"t", "a", "s", "k", "s">>
    @@ "automation" :> <<"a", "u", "t", "o", "m", "a", "t", "i", "o", "n">>
    @@ "integration" :> <<"i", "n", "t", "e", "g", "r", "a", "t", "i", "o", "n">>
    @@ "repo" :> <<"r", "e", "p", "o">>
    @@ "files" :> <<"f", "i", "l", "e", "s">>
    @@ "api" :> <<"a", "p", "i">>
    @@ "rest" :> <<"r", "e", "s", "t">>
    @@ "graphql" :> <<"g", "r", "a", "p", "h", "q", "l">>
    @@ "webhook" :> <<"w", "e", "b", "h", "o", "o", "k">>
    @@ "auth" :> <<"a", "u", "t", "h">>
    @@ "oauth" :> <<"o", "a", "u", "t", "h">>
    @@ "security" :> <<"s", "e", "c", "u", "r", "i", "t", "y">>
    @@ "privacy" :> <<"p", "r", "i", "v", "a", "c", "y">>
    @@ "compliance" :> <<"c", "o", "m", "p", "l", "i", "a", "n", "c", "e">>
    @@ "risk" :> <<"r", "i", "s", "k">>
    @@ "audit" :> <<"a", "u", "d", "i", "t">>
    @@ "plan" :> <<"p", "l", "a", "n">>
    @@ "spec" :> <<"s", "p", "e", "c">>
    @@ "schema" :> <<"s", "c", "h", "e", "m", "a">>
    @@ "code" :> <<"c", "o", "d", "e">>
    @@ "patch" :> <<"p", "a", "t", "c", "h">>
    @@ "tests" :> <<"t", "e", "s", "t", "s">>
    @@ "docs" :> <<"d", "o", "c", "s">>
    @@ "config" :> <<"c", "o", "n", "f", "i", "g">>
    @@ "report" :> <<"r", "e", "p", "o", "r", "t">>
    @@ "pr" :> <<"p", "r">>
    @@ "debugging" :> <<"d", "e", "b", "u", "g", "g", "i", "n", "g">>
    @@ "refactor" :> <<"r", "e", "f", "a", "c", "t", "o", "r">>
    @@ "performance" :> <<"p", "e", "r", "f", "o", "r", "m", "a", "n", "c", "e">>
    @@ "monitoring" :> <<"m", "o", "n", "i", "t", "o", "r", "i", "n", "g">>
    @@ "observability" :> <<"o", "b", "s", "e", "r", "v", "a", "b", "i", "l", "i", "t", "y">>
    @@ "logging" :> <<"l", "o", "g", "g", "i", "n", "g">>
    @@ "ci-cd" :> <<"c", "i", "-", "c", "d">>
    @@ "deploy" :> <<"d", "e", "p", "l", "o", "y">>
    @@ "docker" :> <<"d", "o", "c", "k", "e", "r">>
    @@ "kubernetes" :> <<"k", "u", "b", "e", "r", "n", "e", "t", "e", "s">>
    @@ "serverless" :> <<"s", "e", "r", "v", "e", "r", "l", "e", "s", "s">>
    @@ "nodejs" :> <<"n", "o", "d", "e", "j", "s">>
    @@ "typescript" :> <<"t", "y", "p", "e", "s", "c", "r", "i", "p", "t">>
    @@ "javascript" :> <<"j", "a", "v", "a", "s", "c", "r", "i", "p", "t">>
    @@ "python" :> <<"p", "y", "t", "h", "o", "n">>
    @@ "go" :> <<"g", "o">>
    @@ "rust" :> <<"r", "u", "s", "t">>
    @@ "java" :> <<"j", "a", "v", "a">>
    @@ "react" :> <<"r", "e", "a", "c", "t">>
    @@ "nextjs" :> <<"n", "e", "x", "t", "j", "s">>
    @@ "frontend" :> <<"f", "r", "o", "n", "t", "e", "n", "d">>
    @@ "backend" :> <<"b", "a", "c", "k", "e", "n", "d">>
    @@ "database" :> <<"d", "a", "t", "a", "b", "a", "s", "e">>
    @@ "db" :> <<"d", "b">>
    @@ "sql" :> <<"s", "q", "l">>
    @@ "nosql" :> <<"n", "o", "s", "q", "l">>
    @@ "vector-db" :> <<"v", "e", "c", "t", "o", "r", "-", "d", "b">>
    @@ "rag" :> <<"r", "a", "g">>
    @@ "llm" :> <<"l", "l", "m">>
    @@ "prompting" :> <<"p", "r", "o", "m", "p", "t", "i", "n", "g">>
    @@ "agents" :> <<"a", "g", "e", "n", "t", "s">>
    @@ "mcp" :> <<"m", "c", "p">>
    @@ "tooling" :> <<"t", "o", "o", "l", "i", "n", "g">>
    @@ "cli" :> <<"c", "l", "i">>
    @@ "scripts" :> <<"s", "c", "r", "i", "p", "t", "s">>
    @@ "readme" :> <<"r", "e", "a", "d", "m", "e">>
    @@ "changelog" :> <<"c", "h", "a", "n", "g", "e", "l", "o", "g">>
    @@ "guides" :> <<"g", "u", "i", "d", "e", "s">>
    @@ "templates" :> <<"t", "e", "m", "p", "l", "a", "t", "e", "s">>
    @@ "examples" :> <<"e", "x", "a", "m", "p", "l", "e", "s">>
    @@ "architecture" :> <<"a", "r", "c", "h", "i", "t", "e", "c", "t", "u", "r", "e">>
    @@ "diagram" :> <<"d", "i", "a", "g", "r", "a", "m">>
    @@ "mermaid" :> <<"m", "e", "r", "m", "a", "i", "d">>
    @@ "ui" :> <<"u", "i">>
    @@ "ux" :> <<"u", "x">>
    @@ "design" :> <<"d", "e", "s", "i", "g", "n">>
    @@ "accessibility" :> <<"a", "c", "c", "e", "s", "s", "i", "b", "i", "l", "i", "t", "y">>
    @@ "seo" :> <<"s", "e", "o">>
    @@ "analytics" :> <<"a", "n", "a", "l", "y", "t", "i", "c", "s">>
    @@ "dashboard" :> <<"d", "a", "s", "h", "b", "o", "a", "r", "d">>
    @@ "reporting" :> <<"r", "e", "p", "o", "r", "t", "i", "n", "g">>
    @@ "documents" :> <<"d", "o", "c", "u", "m", "e", "n", "t", "s">>
    @@ "export" :> <<"e", "x", "p", "o", "r", "t">>
    @@ "csv" :> <<"c", "s", "v">>
    @@ "json" :> <<"j", "s", "o", "n">>
    @@ "yaml" :> <<"y", "a", "m", "l">>
    @@ "markdown" :> <<"m", "a", "r", "k", "d", "o", "w", "n">>
    @@ "pdf" :> <<"p", "d", "f">>
    @@ "docx" :> <<"d", "o", "c", "x">>
    @@ "pptx" :> <<"p", "p", "t", "x">>
    @@ "image" :> <<"i", "m", "a", "g", "e">>
    @@ "video" :> <<"v", "i", "d", "e", "o">>
    @@ "audio" :> <<"a", "u", "d", "i", "o">>
    @@ "notebook" :> <<"n", "o", "t", "e", "b", "o", "o", "k">>
    @@ "notion" :> <<"n", "o", "t", "i", "o", "n">>
    @@ "slack" :> <<"s", "l", "a", "c", "k">>
    @@ "discord" :> <<"d", "i", "s", "c", "o", "r", "d">>
    @@ "telegram" :> <<"t", "e", "l", "e", "g", "r", "a", "m">>
    @@ "github" :> <<"g", "i", "t", "h", "u", "b">>
    @@ "jira" :> <<"j", "i", "r", "a">>
    @@ "file-ops" :> <<"f", "i", "l", "e", "-", "o", "p", "s">>
    @@ "data-extraction" :> <<"d", "a", "t", "a", "-", "e", "x", "t", "r", "a", "c", "t", "i", "o", "n">>
    @@ "data-transform" :> <<"d", "a", "t", "a", "-", "t", "r", "a", "n", "s", "f", "o", "r", "m">>
    @@ "validation" :> <<"v", "a", "l", "i", "d", "a", "t", "i", "o", "n">>
    @@ "quality" :> <<"q", "u", "a", "l", "i", "t", "y">>
    @@ "js" :> <<"j", "s">>
    @@ "ts" :> <<"t", "s">>
    @@ "reactjs" :> <<"r", "e", "a", "c", "t", "j", "s">>
    @@ "react_js" :> <<"r", "e", "a", "c", "t", "_", "j", "s">>
    @@ "node" :> <<"n", "o", "d", "e">>
    @@ "node_js" :> <<"n", "o", "d", "e", "_", "j", "s">>
    @@ "requirement" :> <<"r", "e", "q", "u", "i", "r", "e", "m", "e", "n", "t">>
    @@ "specs" :> <<"s", "p", "e", "c", "s">>
    @@ "specification" :> <<"s", "p", "e", "c", "i", "f", "i", "c", "a", "t", "i", "o", "n">>
    @@ "specifications" :> <<"s", "p", "e", "c", "i", "f", "i", "c", "a", "t", "i", "o", "n", "s">>
    @@ "prd" :> <<"p", "r", "d">>
    @@ "roadmap" :> <<"r", "o", "a", "d", "m", "a", "p">>
    @@ "orchestration" :> <<"o", "r", "c", "h", "e", "s", "t", "r", "a", "t", "i", "o", "n">>
    @@ "pipeline" :> <<"p", "i", "p", "e", "l", "i", "n", "e">>
    @@ "pipelines" :> <<"p", "i", "p", "e", "l", "i", "n", "e", "s">>
    @@ "todo" :> <<"t", "o", "d", "o">>
    @@ "todos" :> <<"t", "o", "d", "o", "s">>
    @@ "task" :> <<"t", "a", "s", "k">>
    @@ "automations" :> <<"a", "u", "t", "o", "m", "a", "t", "i", "o", "n", "s">>
    @@ "integrations" :> <<"i", "n", "t", "e", "g", "r", "a", "t", "i", "o", "n", "s">>
    @@ "connector" :> <<"c", "o", "n", "n", "e", "c", "t", "o", "r">>
    @@ "connectors" :> <<"c", "o", "n", "n", "e", "c", "t", "o", "r", "s">>
    @@ "repository" :> <<"r", "e", "p", "o", "s", "i", "t", "o", "r", "y">>
    @@ "file" :> <<"f", "i", "l", "e">>
    @@ "endpoint" :> <<"e", "n", "d", "p", "o", "i", "n", "t">>
    @@ "endpoints" :> <<"e", "n", "d", "p", "o", "i", "n", "t", "s">>
    @@ "http" :> <<"h", "t", "t", "p">>
    @@ "restapi" :> <<"r", "e", "s", "t", "a", "p", "i">>
    @@ "hook" :> <<"h", "o", "o", "k">>
    @@ "webhooks" :> <<"w", "e", "b", "h", "o", "o", "k", "s">>
    @@ "authentication" :> <<"a", "u", "t", "h", "e", "n", "t", "i", "c", "a", "t", "i", "o", "n">>
    @@ "authorization" :> <<"a", "u", "t", "h", "o", "r", "i", "z", "a", "t", "i", "o", "n">>
    @@ "login" :> <<"l", "o", "g", "i", "n">>
    @@ "oauth2" :> <<"o", "a", "u", "t", "h", "2">>
    @@ "sec" :> <<"s", "e", "c">>
    @@ "gdpr" :> <<"g", "d", "p", "r">>
    @@ "hipaa" :> <<"h", "i", "p", "a", "a">>
    @@ "iso27001" :> <<"i", "s", "o", "2", "7", "0", "0", "1">>
    @@ "schemas" :> <<"s", "c", "h", "e", "m", "a", "s">>
    @@ "implementation" :> <<"i", "m", "p", "l", "e", "m", "e", "n", "t", "a", "t", "i", "o", "n">>
    @@ "sourcecode" :> <<"s", "o", "u", "r", "c", "e", "c", "o", "d", "e">>
    @@ "source" :> <<"s", "o", "u", "r", "c", "e">>
    @@ "diff" :> <<"d", "i", "f", "f">>
    @@ "patches" :> <<"p", "a", "t", "c", "h", "e", "s">>
    @@ "configs" :> <<"c", "o", "n", "f", "i", "g", "s">>
    @@ "configuration" :> <<"c", "o", "n", "f", "i", "g", "u", "r", "a", "t", "i", "o", "n">>
    @@ "settings" :> <<"s", "e", "t", "t", "i", "n", "g", "s">>
    @@ "test" :> <<"t", "e", "s", "t">>
    @@ "testing" :> <<"t", "e", "s", "t", "i", "n", "g">>
    @@ "qa" :> <<"q", "a">>
    @@ "jest" :> <<"j", "e", "s", "t">>
    @@ "vitest" :> <<"v", "i", "t", "e", "s", "t">>
    @@ "pytest" :> <<"p", "y", "t", "e", "s", "t">>
    @@ "playwright" :> <<"p", "l", "a", "y", "w", "r", "i", "g", "h", "t">>
    @@ "cypress" :> <<"c", "y", "p", "r", "e", "s", "s">>
    @@ "reports" :> <<"r", "e", "p", "o", "r", "t", "s">>
    @@ "summary" :> <<"s", "u", "m", "m", "a", "r", "y">>
    @@ "pullrequest" :> <<"p", "u", "l", "l", "r", "e", "q", "u", "e", "s", "t">>
    @@ "merge" :> <<"m", "e", "r", "g", "e">>
    @@ "deployment" :> <<"d", "e", "p", "l", "o", "y", "m", "e", "n", "t">>
    @@ "deployments" :> <<"d", "e", "p", "l", "o", "y", "m", "e", "n", "t", "s">>
    @@ "release" :> <<"r", "e", "l", "e", "a", "s", "e">>
    @@ "releases" :> <<"r", "e", "l", "e", "a", "s", "e", "s">>
    @@ "vercel" :> <<"v", "e", "r", "c", "e", "l">>
    @@ "netlify" :> <<"n", "e", "t", "l", "i", "f", "y">>
    @@ "debug" :> <<"d", "e", "b", "u", "g">>
    @@ "profiling" :> <<"p", "r", "o", "f", "i", "l", "i", "n", "g">>
    @@ "metrics" :> <<"m", "e", "t", "r", "i", "c", "s">>
    @@ "tracing" :> <<"t", "r", "a", "c", "i", "n", "g">>
    @@ "logs" :> <<"l", "o", "g", "s">>
    @@ "cicd" :> <<"c", "i", "c", "d">>
    @@ "ci" :> <<"c", "i">>
    @@ "cd" :> <<"c", "d">>
    @@ "container" :> <<"c", "o", "n", "t", "a", "i", "n", "e", "r">>
    @@ "containers" :> <<"c", "o", "n", "t", "a", "i", "n", "e", "r", "s">>
    @@ "k8s" :> <<"k", "8", "s">>
    @@ "lambda" :> <<"l", "a", "m", "b", "d", "a">>
    @@ "cloudfunctions" :> <<"c", "l", "o", "u", "d", "f", "u", "n", "c", "t", "i", "o", "n", "s">>
    @@ "node.js" :> <<"n", "o", "d", "e", ".", "j", "s">>
    @@ "golang" :> <<"g", "o", "l", "a", "n", "g">>
    @@ "databases" :> <<"d", "a", "t", "a", "b", "a", "s", "e", "s">>
    @@ "postgresql" :> <<"p", "o", "s", "t", "g", "r", "e", "s", "q", "l">>
    @@ "postgres" :> <<"p", "o", "s", "t", "g", "r", "e", "s">>
    @@ "mysql" :> <<"m", "y", "s", "q", "l">>
    @@ "sqlite" :> <<"s", "q", "l", "i", "t", "e">>
    @@ "mongo" :> <<"m", "o", "n", "g", "o">>
    @@ "mongodb" :> <<"m", "o", "n", "g", "o", "d", "b">>
    @@ "redis" :> <<"r", "e", "d", "i", "s">>
    @@ "vectordb" :> <<"v", "e", "c", "t", "o", "r", "d", "b">>
    @@ "embeddings" :> <<"e", "m", "b", "e", "d", "d", "i", "n", "g", "s">>
    @@ "llms" :> <<"l", "l", "m", "s">>
    @@ "ai" :> <<"a", "i">>
    @@ "prompts" :> <<"p", "r", "o", "m", "p", "t", "s">>
    @@ "prompt" :> <<"p", "r", "o", "m", "p", "t">>
    @@ "agent" :> <<"a", "g", "e", "n", "t">>
    @@ "mcpserver" :> <<"m", "c", "p", "s", "e", "r", "v", "e", "r">>
    @@ "mcpservers" :> <<"m", "c", "p", "s", "e", "r", "v", "e", "r", "s">>
    @@ "modelcontextprotocol" :> <<"m", "o", "d", "e", "l", "c", "o", "n", "t", "e", "x", "t", "p", "r", "o", "t", "o", "c", "o", "l">>
    @@ "tool" :> <<"t", "o", "o", "l">>
    @@ "tools" :> <<"t", "o", "o", "l", "s">>
    @@ "command" :> <<"c", "o", "m", "m", "a", "n", "d">>
    @@ "commands" :> <<"c", "o", "m", "m", "a", "n", "d", "s">>
    @@ "script" :> <<"s", "c", "r", "i", "p", "t">>
    @@ "documentation" :> <<"d", "o", "c", "u", "m", "e", "n", "t", "a", "t", "i", "o", "n">>
    @@ "guide" :> <<"g", "u", "i", "d", "e">>
    @@ "template" :> <<"t", "e", "m", "p", "l", "a", "t", "e">>
    @@ "sample" :> <<"s", "a", "m", "p", "l", "e">>
    @@ "samples" :> <<"s", "a", "m", "p", "l", "e", "s">>
    @@ "example" :> <<"e", "x", "a", "m", "p", "l", "e">>
    @@ "diagrams" :> <<"d", "i", "a", "g", "r", "a", "m", "s">>
    @@ "flowchart" :> <<"f", "l", "o", "w", "c", "h", "a", "r", "t">>
    @@ "a11y" :> <<"a", "1", "1", "y">>
    @@ "chart" :> <<"c", "h", "a", "r", "t">>
    @@ "charts" :> <<"c", "h", "a", "r", "t", "s">>
    @@ "document" :> <<"d", "o", "c", "u", "m", "e", "n", "t">>
    @@ "doc" :> <<"d", "o", "c">>
    @@ "exporting" :> <<"e", "x", "p", "o", "r", "t", "i", "n", "g">>
    @@ "exports" :> <<"e", "x", "p", "o", "r", "t", "s">>
    @@ "xlsx" :> <<"x", "l", "s", "x">>
    @@ "tsv" :> <<"t", "s", "v">>
    @@ "yml" :> <<"y", "m", "l">>
    @@ "md" :> <<"m", "d">>
    @@ "word" :> <<"w", "o", "r", "d">>
    @@ "powerpoint" :> <<"p", "o", "w", "e", "r", "p", "o", "i", "n", "t">>
    @@ "ppt" :> <<"p", "p", "t">>
    @@ "slides" :> <<"s", "l", "i", "d", "e", "s">>
    @@ "images" :> <<"i", "m", "a", "g", "e", "s">>
    @@ "screenshot" :> <<"s", "c", "r", "e", "e", "n", "s", "h", "o", "t">>
    @@ "screenshots" :> <<"s", "c", "r", "e", "e", "n", "s", "h", "o", "t", "s">>
    @@ "videos" :> <<"v", "i", "d", "e", "o", "s">>
    @@ "notebooklm" :> <<"n", "o", "t", "e", "b", "o", "o", "k", "l", "m">>
    @@ "filesystem" :> <<"f", "i", "l", "e", "s", "y", "s", "t", "e", "m">>
    @@ "extraction" :> <<"e", "x", "t", "r", "a", "c", "t", "i", "o", "n">>
    @@ "parser" :> <<"p", "a", "r", "s", "e", "r">>
    @@ "transform" :> <<"t", "r", "a", "n", "s", "f", "o", "r", "m">>
    @@ "etl" :> <<"e", "t", "l">>
    @@ "validate" :> <<"v", "a", "l", "i", "d", "a", "t", "e">>
    @@ "requirements spec" :> <<"r", "e", "q", "u", "i", "r", "e", "m", "e", "n", "t", "s", " ", "s", "p", "e", "c">>
    @@ "mcp server" :> <<"m", "c", "p", " ", "s", "e", "r", "v", "e", "r">>
    @@ "model context protocol" :> <<"m", "o", "d", "e", "l", " ", "c", "o", "n", "t", "e", "x", "t", " ", "p", "r", "o", "t", "o", "c", "o", "l">>
    @@ "pull request" :> <<"p", "u", "l", "l", " ", "r", "e", "q", "u", "e", "s", "t">>
    @@ "code patch" :> <<"c", "o", "d", "e", " ", "p", "a", "t", "c", "h">>
    @@ "output artifact" :> <<"o", "u", "t", "p", "u", "t", " ", "a", "r", "t", "i", "f", "a", "c", "t">>
    @@ "test suite" :> <<"t", "e", "s", "t", " ", "s", "u", "i", "t", "e">>
    @@ "word document" :> <<"w", "o", "r", "d", " ", "d", "o", "c", "u", "m", "e", "n", "t">>
    @@ "power point" :> <<"p", "o", "w", "e", "r", " ", "p", "o", "i", "n", "t">>
    @@ "slide deck" :> <<"s", "l", "i", "d", "e", " ", "d", "e", "c", "k">>
    @@ " Code " :> <<" ", "C", "o", "d", "e", " ">>
    @@ "JS" :> <<"J", "S">>
    @@ "open pull request" :> <<"o", "p", "e", "n", " ", "p", "u", "l", "l", " ", "r", "e", "q", "u", "e", "s", "t">>
    @@ "my tests" :> <<"m", "y", " ", "t", "e", "s", "t", "s">>
    @@ "kubernets" :> <<"k", "u", "b", "e", "r", "n", "e", "t", "s">>
    @@ "zzz" :> <<"z", "z", "z">>
    @@ "   " :> <<" ", " ", " ">>
    @@ "constructor" :> <<"c", "o", "n", "s", "t", "r", "u", "c", "t", "o", "r">>
    @@ "CI/CD" :> <<"C", "I", "/", "C", "D">>
    @@ "!!!" :> <<"!", "!", "!">>
    @@ "unit testing" :> <<"u", "n", "i", "t", " ", "t", "e", "s", "t", "i", "n", "g">>
    @@ "vector stuff" :> <<"v", "e", "c", "t", "o", "r", " ", "s", "t", "u", "f", "f">>
    @@ "my video" :> <<"m", "y", " ", "v", "i", "d", "e", "o">>
    @@ "my workflow" :> <<"m", "y", " ", "w", "o", "r", "k", "f", "l", "o", "w">>
    @@ "jsno" :> <<"j", "s", "n", "o">>
    @@ "kuber netes" :> <<"k", "u", "b", "e", "r", " ", "n", "e", "t", "e", "s">>
    @@ "zzzzz" :> <<"z", "z", "z", "z", "z">>
    @@ "githb" :> <<"g", "i", "t", "h", "b">>

\* FIELD_ALLOWED with the whole vocabulary allowed in every field
FIELD_ALLOWED_Uniform(field) == VOCAB_SET

FIELD_ALLOWED(field) ==
    CASE field = "inputsTags" -> INPUT_TAGS_ALLOWED
      [] field = "artifactsTags" -> ARTIFACT_TAGS_ALLOWED
      [] field = "capabilitiesTags" -> CAPABILITY_TAGS_ALLOWED

MachineFields == {"inputsTags", "artifactsTags", "capabilitiesTags"}

\* null, and the absent mappedTo of an issue
NoTag == ""

\* what table[key] gives for the key "constructor", which no table holds: the
\* function Object inherited from Object.prototype; it is truthy and is no tag
ObjectConstructor == "function Object() { [native code] }"

\* table[key] for an object literal of the source: the value of the own property,
\* the inherited constructor, or undefined (NoTag)
lookup(table, key) ==
    IF \E i \in DOMAIN table : Chars[table[i][1]] = key
    THEN table[CHOOSE i \in DOMAIN table : Chars[table[i][1]] = key][2]
    ELSE IF key = Chars["constructor"] THEN ObjectConstructor
    ELSE NoTag

\* the vocabulary tag spelled by the characters, NoTag if VOCAB_SET does not have it
vocabTag(text) ==
    IF \E t \in VOCAB_SET : Chars[t] = text
    THEN CHOOSE t \in VOCAB_SET : Chars[t] = text
    ELSE NoTag

\* normalizeTagToken without the hyphen in the characters it keeps, and deleting
\* instead of spacing what it does not keep
normalizeTagTokenDropsHyphen(value) ==
    LET lowered == toLowerCase(value)
        separated == replaceRuns(lowered, LAMBDA c : c \in {"_", "/", "\\"}, <<" ">>)
        cleaned == replaceRuns(separated,
                       LAMBDA c : ~(\E k \in DOMAIN LowerLetters : LowerLetters[k] = c)
                                  /\ c \notin Digits /\ c \notin Whitespace,
                       <<>>)
        collapsed == replaceRuns(cleaned, LAMBDA c : c \in Whitespace, <<" ">>)
    IN  trim(collapsed)

normalizeTagToken(value) ==
    LET lowered == toLowerCase(value)
        \* .replace(/[_/\\]+/g, ' ')
        separated == replaceRuns(lowered, LAMBDA c : c \in {"_", "/", "\\"}, <<" ">>)
        \* .replace(/[^a-z0-9\s-]+/g, ' ')
        cleaned == replaceRuns(separated,
                       LAMBDA c : ~(\E k \in DOMAIN LowerLetters : LowerLetters[k] = c)
                                  /\ c \notin Digits /\ c \notin Whitespace /\ c # "-",
                       <<" ">>)
        \* .replace(/\s+/g, ' ')
        collapsed == replaceRuns(cleaned, LAMBDA c : c \in Whitespace, <<" ">>)
    IN  trim(collapsed)

toCanonicalCandidate(value) ==
    replaceRuns(normalizeTagToken(value), LAMBDA c : c \in Whitespace, <<"-">>)

Min3(a, b, c) == IF a <= b /\ a <= c THEN a ELSE IF b <= c THEN b ELSE c

\* one row matrix[i] of the edit-distance matrix, from the row above it
RECURSIVE levenshteinRow(_, _, _, _)
levenshteinRow(a, bChar, above, row) ==
    IF Len(row) = Len(a) + 1 THEN row
    ELSE LET j == Len(row)
             cell == IF bChar = a[j] THEN above[j]
                     ELSE Min3(above[j] + 1, row[j] + 1, above[j + 1] + 1)
         IN  levenshteinRow(a, bChar, above, Append(row, cell))

RECURSIVE levenshteinRows(_, _, _, _)
levenshteinRows(a, b, i, above) ==
    IF i > Len(b) THEN above
    ELSE levenshteinRows(a, b, i + 1, levenshteinRow(a, b[i], above, <<i>>))

levenshteinDistance(a, b) ==
    IF a = b THEN 0
    ELSE IF Len(a) = 0 THEN Len(b)
    ELSE IF Len(b) = 0 THEN Len(a)
    ELSE levenshteinRows(a, b, 1, [j \in 1..(Len(a) + 1) |-> j - 1])[Len(a) + 1]

\* the first element of a sequence that is best under Better (a strict order)
firstBest(s, Better(_, _)) ==
    s[CHOOSE i \in DOMAIN s :
          /\ \A j \in DOMAIN s : ~Better(s[j], s[i])
          /\ \A j \in DOMAIN s : j < i => Better(s[i], s[j])]

\* the score closestTagByTokenScore gives a vocabulary tag
tokenScore(normalized, tokenParts, tag) ==
    LET \* tag.replace(/-/g, ' ')
        spacedTag == [i \in DOMAIN Chars[tag] |-> IF Chars[tag][i] = "-" THEN " " ELSE Chars[tag][i]]
        tagWords == splitOn(Chars[tag], "-")
        partScore(part) ==
            (IF part = Chars[tag] THEN 10 ELSE 0)
            + (IF Includes(tagWords, part) THEN 6 ELSE 0)
            + (IF Len(part) > 3 /\ includesText(Chars[tag], part) THEN 2 ELSE 0)
    IN  (IF normalized = spacedTag THEN 50 ELSE 0)
        + (IF includesText(normalized, spacedTag) THEN 8 ELSE 0)
        + SumSeq([k \in DOMAIN tokenParts |-> partScore(tokenParts[k])])

\* closestTagByTokenScore measuring the edit distance of a compact form of any length
closestTagAnyLength(normalized) ==
    IF Len(normalized) = 0 THEN NoTag
    ELSE
    LET tokenParts == splitWords(normalized)
        multiToken == Len(tokenParts) > 1
        scored == SelectSeq(TAG_VOCAB, LAMBDA tag : ~(multiToken /\ Len(Chars[tag]) <= 2))
        scores == [k \in DOMAIN scored |->
                      [tag |-> scored[k], score |-> tokenScore(normalized, tokenParts, scored[k])]]
        best == firstBest(scores, LAMBDA x, y : x.score > y.score)
        compact == SelectSeq(normalized, LAMBDA c : c \notin Whitespace)
        measured == SelectSeq(TAG_VOCAB, LAMBDA tag : Len(Chars[tag]) > 2)
        distances == [k \in DOMAIN measured |->
                         [tag |-> measured[k],
                          distance |-> levenshteinDistance(
                                          compact, SelectSeq(Chars[measured[k]], LAMBDA c : c # "-"))]]
        nearest == firstBest(distances, LAMBDA x, y : x.distance < y.distance)
    IN  IF Len(scores) > 0 /\ best.score >= 8 THEN best.tag
        ELSE IF nearest.distance <= 2 THEN nearest.tag
        ELSE NoTag

closestTagByTokenScore(normalized) ==
    IF Len(normalized) = 0 THEN NoTag
    ELSE
    LET tokenParts == splitWords(normalized)
        multiToken == Len(tokenParts) > 1
        scored == SelectSeq(TAG_VOCAB, LAMBDA tag : ~(multiToken /\ Len(Chars[tag]) <= 2))
        scores == [k \in DOMAIN scored |->
                      [tag |-> scored[k], score |-> tokenScore(normalized, tokenParts, scored[k])]]
        best == firstBest(scores, LAMBDA x, y : x.score > y.score)
        compact == SelectSeq(normalized, LAMBDA c : c \notin Whitespace)
        measured == SelectSeq(TAG_VOCAB, LAMBDA tag : Len(Chars[tag]) > 2)
        distances == [k \in DOMAIN measured |->
                         [tag |-> measured[k],
                          distance |-> levenshteinDistance(
                                          compact, SelectSeq(Chars[measured[k]], LAMBDA c : c # "-"))]]
        nearest == firstBest(distances, LAMBDA x, y : x.distance < y.distance)
    IN  IF Len(scores) > 0 /\ best.score >= 8 THEN best.tag
        ELSE IF Len(compact) < 5 THEN NoTag
        ELSE IF nearest.distance <= 2 THEN nearest.tag
        ELSE NoTag

\* an InvalidTagIssue; mappedTo is NoTag where the source leaves it out
TagIssue(field, rawTag, mappedTo, reason) ==
    [field |-> field, rawTag |-> rawTag, mappedTo |-> mappedTo, reason |-> reason]

\* result: [mapped, issue]; mapped = NoTag for null, issue = <<>> for null
mapRawTagOf(rawText) ==
    LET raw == trim(rawText)
        canonicalCandidate == toCanonicalCandidate(raw)
        normalized == normalizeTagToken(raw)
        normalizedCompact == SelectSeq(normalized, LAMBDA c : c \notin Whitespace)
        alias == IF lookup(ALIAS_MAP, normalizedCompact) # NoTag
                 THEN lookup(ALIAS_MAP, normalizedCompact) ELSE lookup(ALIAS_MAP, normalized)
        exactSynonym == IF lookup(SYNONYM_TO_TAG, normalizedCompact) # NoTag
                        THEN lookup(SYNONYM_TO_TAG, normalizedCompact)
                        ELSE lookup(SYNONYM_TO_TAG, normalized)
        phrases == SelectSeq(COMPOUND_SYNONYMS, LAMBDA entry : includesText(normalized, Chars[entry[1]]))
        parts == splitWords(normalized)
        partTag(part) == IF vocabTag(part) # NoTag THEN vocabTag(part) ELSE lookup(SYNONYM_TO_TAG, part)
        known == SelectSeq(parts, LAMBDA part : partTag(part) # NoTag)
        fuzzyMatch == closestTagByTokenScore(normalized)
        unknown(mappedTo) == <<TagIssue("inputsTags", raw, mappedTo, "unknown_tag")>>
    IN  IF Len(raw) = 0 THEN [mapped |-> NoTag, issue |-> <<>>]
        ELSE IF vocabTag(canonicalCandidate) # NoTag
        THEN [mapped |-> vocabTag(canonicalCandidate), issue |-> <<>>]
        ELSE IF Len(normalized) = 0 THEN [mapped |-> NoTag, issue |-> unknown(NoTag)]
        ELSE IF vocabTag(normalized) # NoTag THEN [mapped |-> vocabTag(normalized), issue |-> <<>>]
        ELSE IF alias # NoTag THEN [mapped |-> alias, issue |-> <<>>]
        ELSE IF exactSynonym # NoTag THEN [mapped |-> exactSynonym, issue |-> <<>>]
        ELSE IF Len(phrases) > 0 THEN [mapped |-> phrases[1][2], issue |-> <<>>]
        ELSE IF Len(known) > 0 THEN [mapped |-> partTag(known[1]), issue |-> unknown(partTag(known[1]))]
        ELSE IF fuzzyMatch # NoTag THEN [mapped |-> fuzzyMatch, issue |-> unknown(fuzzyMatch)]
        ELSE [mapped |-> NoTag, issue |-> unknown(NoTag)]

\* mapRawTag is a pure function: its value for every string of the model
mapRawTagTable == [rawTag \in DOMAIN Chars |-> mapRawTagOf(Chars[rawTag])] @@ <<>>

mapRawTag(rawTag) == mapRawTagTable[rawTag]

\* rawTags.slice(0, 24) without the limit
firstRawTagsAll(rawTags) == rawTags

\* rawTags.slice(0, 24)
firstRawTags(rawTags) == SubSeq(rawTags, 1, IF Len(rawTags) < RAW_TAG_LIMIT THEN Len(rawTags) ELSE RAW_TAG_LIMIT)

\* the body of the loop of sanitizeTagField once mapRawTag has returned m;
\* acc = [result, issues]
sanitizeMapped(candidate, field, acc, m) ==
    LET allowed == FIELD_ALLOWED(field)
        corrected == lookup(ARTIFACT_FIELD_AUTOCORRECT, IF m.mapped \in DOMAIN Chars THEN Chars[m.mapped] ELSE <<>>)
        own == [i \in DOMAIN m.issue |-> [m.issue[i] EXCEPT !.field = field]]
    IN  IF m.mapped = NoTag THEN [acc EXCEPT !.issues = @ \o own]
        ELSE IF m.mapped \notin allowed
        THEN IF field = "artifactsTags" /\ corrected # NoTag /\ corrected \in allowed
             \* continue: the issue of mapRawTag is not recorded
             THEN [acc EXCEPT !.result = IF Includes(@, corrected) THEN @ ELSE Append(@, corrected)]
             ELSE [acc EXCEPT !.issues =
                       Append(@, TagIssue(field, Chars[candidate], m.mapped, "field_not_allowed")) \o own]
        ELSE [result |-> IF Includes(acc.result, m.mapped) THEN acc.result ELSE Append(acc.result, m.mapped),
              issues |-> acc.issues \o own]

\* one iteration of the loop of sanitizeTagField
sanitizeStep(candidate, field, acc) == sanitizeMapped(candidate, field, acc, mapRawTag(candidate))

RECURSIVE sanitizeLoop(_, _, _, _)
sanitizeLoop(candidates, k, field, acc) ==
    IF k > Len(candidates) THEN acc
    ELSE sanitizeLoop(candidates, k + 1, field, sanitizeStep(candidates[k], field, acc))

\* result.slice(0, 8) and the issues
sanitizeResult(done) ==
    [tags |-> SubSeq(done.result, 1, IF Len(done.result) < TAG_LIMIT THEN Len(done.result) ELSE TAG_LIMIT),
     issues |-> done.issues]

\* result: [tags, issues]
sanitizeTagField(rawTags, field) ==
    sanitizeResult(sanitizeLoop(firstRawTags(rawTags), 1, field, [result |-> <<>>, issues |-> <<>>]))

(***************************************************************************)
(* Catalogs the graph builder is run on                                    *)
(***************************************************************************)
SkillRecord(id, stage, inputsTags, artifactsTags, capabilitiesTags) ==
    [id |-> id, stage |-> stage, inputsTags |-> inputsTags,
     artifactsTags |-> artifactsTags, capabilitiesTags |-> capabilitiesTags]

\* largest catalog
MaxSkills == 10

\* largest number of spokes around a hub entry
MaxSpokes == 6

\* an entry without tags
Plain(id) == SkillRecord(id, "other", <<>>, <<>>, <<>>)

\* stage and tag lists an entry of interest may carry
Profiles ==
    << [stage |-> "implement", inputsTags |-> <<>>, artifactsTags |-> <<"code">>, capabilitiesTags |-> <<>>],
       [stage |-> "verify", inputsTags |-> <<"code">>, artifactsTags |-> <<>>, capabilitiesTags |-> <<>>],
       [stage |-> "plan", inputsTags |-> <<>>, artifactsTags |-> <<>>, capabilitiesTags |-> <<"rag">>],
       [stage |-> "implement", inputsTags |-> <<"tests">>, artifactsTags |-> <<"code">>,
        capabilitiesTags |-> <<"rag", "llm">>],
       [stage |-> "verify", inputsTags |-> <<"code">>, artifactsTags |-> <<"tests">>,
        capabilitiesTags |-> <<"llm", "rag">>],
       [stage |-> "implement", inputsTags |-> <<"code", "tests">>, artifactsTags |-> <<"tests", "code">>,
        capabilitiesTags |-> <<"rag", "workflow">>],
       [stage |-> "release", inputsTags |-> <<"Code", "json">>, artifactsTags |-> <<"json", " tests ">>,
        capabilitiesTags |-> <<"workflow", "  ">>],
       [stage |-> "verify", inputsTags |-> <<"json", "schema">>, artifactsTags |-> <<"code", "json">>,
        capabilitiesTags |-> <<"llm">>],
       [stage |-> "other", inputsTags |-> <<>>, artifactsTags |-> <<>>, capabilitiesTags |-> <<>>] >>

FromProfile(id, p) ==
    SkillRecord(id, Profiles[p].stage, Profiles[p].inputsTags, Profiles[p].artifactsTags,
                Profiles[p].capabilitiesTags)

\* the entries of interest first, then entries without tags up to size n
Padded(front, n) == front \o [i \in 1..(n - Len(front)) |-> Plain(Len(front) + i)]

\* smallest catalog in which a tag shared by two entries is specific
MinSpecific == CHOOSE n \in 1..MaxSkills : specificDfMaxOf(n) > 1 /\ \A m \in 1..(n - 1) : specificDfMaxOf(m) = 1

Duos == {Padded(<<FromProfile(1, p), FromProfile(2, q)>>, 2) : p, q \in DOMAIN Profiles}

Trios ==
    {Padded(<<FromProfile(1, p), FromProfile(2, q), FromProfile(3, r)>>, n) :
        p, q, r \in DOMAIN Profiles, n \in {3, MinSpecific, MaxSkills}}

\* the third entry carries the id of the first
Twins ==
    {Padded(<<FromProfile(1, p), FromProfile(2, q), FromProfile(1, r)>>, MinSpecific) :
        p, q, r \in 4..6}

SpokeTags == <<"rag", "llm", "mcp", "agents", "prompting", "tooling", "cli", "api">>

SpokeArtifacts == <<"code", "tests", "spec", "plan", "schema", "patch", "docs", "config">>

\* a hub sharing one capability tag with each of k spokes
CapabilityStars ==
    {Padded(<<SkillRecord(1, "plan", <<>>, <<>>, SubSeq(SpokeTags, 1, k))>>
              \o [i \in 1..k |-> SkillRecord(i + 1, stage, <<>>, <<>>, <<SpokeTags[i]>>)],
            Max2(MinSpecific, k + 1)) :
        k \in 1..MaxSpokes, stage \in {"plan", "implement", "verify"}}

\* a hub whose artifacts feed the inputs of k spokes
ArtifactStars ==
    {Padded(<<SkillRecord(1, "plan", <<>>, SubSeq(SpokeArtifacts, 1, k), <<>>)>>
              \o [i \in 1..k |-> SkillRecord(i + 1, stage, <<SpokeArtifacts[i]>>, <<>>, <<>>)],
            Max2(MinSpecific, k + 1)) :
        k \in 1..MaxSpokes, stage \in {"plan", "implement"}}

\* a hub of five capability tags and spokes carrying three of them (Jaccard 3/5)
SimilarSpokes ==
    << <<"rag", "llm", "agents">>, <<"rag", "mcp", "prompting">>, <<"llm", "agents", "prompting">>,
       <<"mcp", "agents", "prompting">>, <<"rag", "llm", "mcp">> >>

\* largest number of spokes similar to the hub
MaxSimilar == 4

SimilarStars ==
    {Padded(<<SkillRecord(1, "plan", <<>>, <<>>, <<"rag", "llm", "mcp", "agents", "prompting">>)>>
              \o [i \in 1..k |-> SkillRecord(i + 1, stage, <<>>, <<>>, SimilarSpokes[i])],
            MaxSkills) :
        k \in 1..MaxSimilar, stage \in {"plan", "intake", "verify"}}

\* A hub (id 1) with six spokes.  Every spoke shares three capability tags with the
\* hub, one of them specific; the spokes 2..5 are similar to the hub (Jaccard 3/5),
\* the spokes 6 and 7 carry three tags of their own.  The spokes are paired by an
\* artifact that feeds the partner's input, which gives six directed candidates of
\* lower score.
CrowdedHub ==
    Padded(<< SkillRecord(1, "plan", <<>>, <<>>, <<"rag", "llm", "mcp", "agents", "prompting">>),
              SkillRecord(2, "intake", <<>>, <<"code">>, <<"rag", "agents", "prompting">>),
              SkillRecord(3, "plan", <<"code">>, <<>>, <<"agents", "rag", "prompting">>),
              SkillRecord(4, "intake", <<>>, <<"tests">>, <<"llm", "agents", "prompting">>),
              SkillRecord(5, "plan", <<"tests">>, <<>>, <<"prompting", "llm", "agents">>),
              SkillRecord(6, "intake", <<>>, <<"spec">>, <<"mcp", "agents", "prompting", "tooling", "cli", "api">>),
              SkillRecord(7, "implement", <<"spec">>, <<>>, <<"mcp", "agents", "prompting", "seo", "ux", "ui">>) >>,
           MaxSkills)

\* a hub whose artifacts feed one input of each of MaxSpokes spokes and two inputs of
\* one more spoke, which has the largest id and the highest score
RankedStars ==
    {Padded(<<SkillRecord(1, "plan", <<>>, SubSeq(ARTIFACT_INTERFACE_TAGS, 1, MaxSpokes + 2), <<>>)>>
              \o [i \in 1..MaxSpokes |-> SkillRecord(i + 1, stage, <<ARTIFACT_INTERFACE_TAGS[i]>>, <<>>, <<>>)]
              \o <<SkillRecord(MaxSpokes + 2, stage,
                               SubSeq(ARTIFACT_INTERFACE_TAGS, MaxSpokes + 1, MaxSpokes + 2), <<>>, <<>>)>>,
            MaxSkills) :
        stage \in {"plan", "implement"}}

\* entries that share tags with one another in every field, and an entry without tags
DenseProfiles ==
    << [stage |-> "plan", inputsTags |-> <<"tests">>, artifactsTags |-> <<"code", "plan">>,
        capabilitiesTags |-> <<"rag", "llm">>],
       [stage |-> "implement", inputsTags |-> <<"code", "plan">>, artifactsTags |-> <<"tests">>,
        capabilitiesTags |-> <<"rag", "mcp">>],
       [stage |-> "other", inputsTags |-> <<>>, artifactsTags |-> <<>>, capabilitiesTags |-> <<>>] >>

\* sizes below the smallest catalog in which floor(0.3 n) exceeds 1
SmallSizes == 1..6

\* every catalog of a small size made of dense entries, the entries of one profile
\* next to one another
SmallCatalogs ==
    UNION {{[i \in 1..n |->
                SkillRecord(i, DenseProfiles[f[i]].stage, DenseProfiles[f[i]].inputsTags,
                            DenseProfiles[f[i]].artifactsTags, DenseProfiles[f[i]].capabilitiesTags)] :
            f \in {g \in [1..n -> DOMAIN DenseProfiles] : \A i \in 1..(n - 1) : g[i] <= g[i + 1]}} :
           n \in SmallSizes}

Catalogs ==
    Duos \cup Trios \cup Twins \cup CapabilityStars \cup ArtifactStars \cup SimilarStars \cup {CrowdedHub}
        \cup RankedStars \cup SmallCatalogs

\* size of the catalogs around a reciprocal pair
ReciprocalSize == 11

\* stages of the two entries of a reciprocal pair
PairStages == {"plan", "verify", "docs"}

\* document frequencies of the tag a direction shares besides its specific tag; 0: no such tag
SharedDfs == {0, 9, 10, 11}

FillerStages == <<"intake", "implement", "refactor">>

\* Entry 1 produces spec (and code) and takes plan (and tests); entry 2 produces plan
\* (and tests) and takes spec (and code).  spec and plan are carried by these two only;
\* code is an input of the entries up to dfCode, tests of the entries up to dfTests.
\* The entries 3..5 share the capability rag and the entries 6..8 the capability llm,
\* at stages two apart: six complements candidates of lower score.
ReciprocalCatalog(stageA, stageB, dfCode, dfTests) ==
    LET shared(tag, df, i) == IF i <= df THEN <<tag>> ELSE <<>>
        filler(i) ==
            SkillRecord(i,
                        IF i <= 8 THEN FillerStages[((i - 3) % 3) + 1] ELSE "other",
                        shared("code", dfCode, i) \o shared("tests", dfTests, i),
                        <<>>,
                        IF i <= 5 THEN <<"rag">> ELSE IF i <= 8 THEN <<"llm">> ELSE <<>>)
    IN  << SkillRecord(1, stageA, <<"plan">> \o shared("tests", dfTests, 1),
                       <<"spec">> \o shared("code", dfCode, 1), <<>>),
           SkillRecord(2, stageB, <<"spec">> \o shared("code", dfCode, 2),
                       <<"plan">> \o shared("tests", dfTests, 2), <<>>) >>
            \o [k \in 1..(ReciprocalSize - 2) |-> filler(k + 2)]

ReciprocalCatalogs ==
    {ReciprocalCatalog(stageA, stageB, dfCode, dfTests) :
        stageA \in PairStages, stageB \in PairStages, dfCode \in SharedDfs, dfTests \in SharedDfs}

Reversed(s) == [i \in DOMAIN s |-> s[Len(s) + 1 - i]]

(***************************************************************************)
(* Adjacencies buildChains is run on                                       *)
(***************************************************************************)
\* number of nodes of the freely chosen adjacencies
MaxNodes == 3

\* the target lists of a node: up to two other nodes, in ascending order
TargetLists(node) ==
    {targets \in UNION {[1..n -> (1..MaxNodes) \ {node}] : n \in 0..2} :
        \A i, j \in DOMAIN targets : i < j => targets[i] < targets[j]}

\* every adjacency over the nodes 1..MaxNodes with such target lists, cycles included;
\* the keys in ascending or in descending order
FreeAdjacencies ==
    {[adjacency |-> adjacency, keyOrder |-> keyOrder] :
        adjacency \in {f \in [1..MaxNodes -> UNION {TargetLists(node) : node \in 1..MaxNodes}] :
                          \A node \in 1..MaxNodes : f[node] \in TargetLists(node)},
        keyOrder \in {[i \in 1..MaxNodes |-> i], [i \in 1..MaxNodes |-> MaxNodes + 1 - i]}}

\* A root (1) with five targets (2..6), each with the targets 7, 8, 9, each of which has
\* the targets 10 and 11 and then the back edges given; 10 and 11 have no targets.
Layered(back) ==
    [adjacency |->
        [node \in 1..11 |->
            IF node = 1 THEN <<2, 3, 4, 5, 6>>
            ELSE IF node \in 2..6 THEN <<7, 8, 9>>
            ELSE IF node \in 7..9 THEN <<10, 11>> \o (IF node \in DOMAIN back THEN back[node] ELSE <<>>)
            ELSE <<>>],
     keyOrder |-> [i \in 1..11 |-> i]]

\* back edges from the third layer to the second
BackEdges == {<<>>, (9 :> <<2>>), (9 :> <<2, 3>>) @@ (8 :> <<4>>), (7 :> <<8>>) @@ (8 :> <<7>>)}

Adjacencies == FreeAdjacencies \cup {Layered(back) : back \in BackEdges}

\* the first entry moved to the end
Rotated(s) == IF Len(s) = 0 THEN s ELSE Tail(s) \o <<s[1]>>

Reorderings == {"reversed", "rotated"}

Reordered(s, how) == IF how = "reversed" THEN Reversed(s) ELSE Rotated(s)

(***************************************************************************)
(* Raw tag lists the normalizer is run on                                  *)
(***************************************************************************)
\* longest list of freely chosen raw tags
MaxFree == 2

\* number of raw tags, from the head of RawTagPool, a free list chooses from
FreePoolSize == 12

\* last position of RawTagPool a window reaches
MaxWindow == 29

FreePool == SubSeq(RawTagPool, 1, FreePoolSize)

FreeLists == UNION {[1..n -> SeqToSet(FreePool)] : n \in 0..MaxFree}

\* contiguous stretches of RawTagPool, up to more than RAW_TAG_LIMIT raw tags
Windows == {SubSeq(RawTagPool, i, j) : i, j \in 1..MaxWindow}

\* a raw tag behind unknown raw tags, at the last position read and just after it
LateLists ==
    {[i \in 1..n |-> "zzz"] \o <<RawTagPool[k]>> : n \in {RAW_TAG_LIMIT - 1, RAW_TAG_LIMIT}, k \in 1..FreePoolSize}

\* every stretch of TAG_LIMIT tags of the vocabulary: each tag of TAG_VOCAB, and so each
\* key of ARTIFACT_FIELD_AUTOCORRECT, is passed to every field
VocabLists == {SubSeq(TAG_VOCAB, i, i + TAG_LIMIT - 1) : i \in 1..(Len(TAG_VOCAB) - TAG_LIMIT + 1)}

\* raw tags mapRawTag maps by its last two steps, the per-token scan and
\* closestTagByTokenScore, or cannot map; two of them map to a tag the artifacts field
\* autocorrects
ScanPool ==
    << "my workflow", "my tests", "jsno", "kubernets", "kuber netes", "zzzzz", "vector stuff",
       "githb" >>

\* longest list of ScanLists
MaxScan == 2

ScanLists == UNION {[1..n -> SeqToSet(ScanPool)] : n \in 0..MaxScan}

RawLists == FreeLists \cup Windows \cup LateLists \cup VocabLists \cup ScanLists

(***************************************************************************)
(* Workflow assembler: src/unnamed/part_006 (utils/workflowAssembler)      *)
(*                                                                         *)
(* Its STAGE_ORDER, normalizeTags and intersectTags are those of the graph *)
(* builder, word for word, and are shared with it.  A score is a record    *)
(* [exact, ulps]: exact is the sum in units of 10^-4 (every term is a      *)
(* multiple of 10^-4), ulps is how far the double the source computes lies *)
(* from the double nearest to that sum.  An optional value (T | null) is a *)
(* sequence of at most one element.  A step id is a natural number: 0 is   *)
(* the absent id and k stands for `step-k`.  The name, the title and the   *)
(* confidence of a candidate are copied or derived outputs and left out.   *)
(***************************************************************************)
MAX_ALTERNATIVES == 3

MIN_SELECTABLE_SCORE == 11500

stageDistance(a, b) == Abs(STAGE_ORDER(a) - STAGE_ORDER(b))

scoreStage(stepStage, skillStage) ==
    IF stageDistance(stepStage, skillStage) = 0 THEN 20000
    ELSE IF stageDistance(stepStage, skillStage) = 1 THEN 10000
    ELSE IF stageDistance(stepStage, skillStage) = 2 THEN 3000
    ELSE 0

\* the edge types of the graph between two ids, in that direction
buildEdgeLookup(edges) ==
    [key \in {<<edges[i].from, edges[i].to>> : i \in DOMAIN edges} |->
        {edges[i].type : i \in {j \in DOMAIN edges : <<edges[j].from, edges[j].to>> = key}}]

\* emptyGraph().edges
emptyGraph == <<>>

\* jaccardSimilarity of part_006, a fraction <<intersection, union>>
tagSimilarity(left, right) == jaccardSimilarity(normalizeTags(left), normalizeTags(right))

\* num / den to the nearest integer, halves away from zero: toFixed
RoundFraction(num, den) ==
    IF num >= 0 THEN (2 * num + den) \div (2 * den)
    ELSE -((2 * (-num) + den) \div (2 * den))

\* rating * stageWeight * confidence * sourceWeight in units of 10^-4, a fraction;
\* similarity is the fraction jaccardSimilarity returns
feedbackTerm(step, feedback, similarity) ==
    <<feedback.rating
        * (IF feedback.stepStage = step.stage THEN 20 ELSE 7)
        * (IF feedback.candidateType = "selected" THEN 5 ELSE 4)
        * (similarity[2] + 4 * similarity[1])
        * 20,
      similarity[2]>>

\* the sum of two fractions
AddFractions(x, y) == <<x[1] * y[2] + y[1] * x[2], x[2] * y[2]>>

\* the loop of feedbackBiasForCandidate from entry k on; total is a fraction
RECURSIVE feedbackTotal(_, _, _, _, _, _)
feedbackTotal(step, skill, feedbackEntries, stepTags, k, total) ==
    IF k > Len(feedbackEntries) THEN total
    ELSE IF feedbackEntries[k].skillId # skill.id
    THEN feedbackTotal(step, skill, feedbackEntries, stepTags, k + 1, total)
    ELSE feedbackTotal(step, skill, feedbackEntries, stepTags, k + 1,
             AddFractions(total,
                 feedbackTerm(step, feedbackEntries[k],
                              tagSimilarity(stepTags, feedbackEntries[k].expectedTags))))

\* Math.max(-1.6, Math.min(1.6, Number(total.toFixed(4))))
clampBias(total) ==
    IF RoundFraction(total[1], total[2]) > 16000 THEN 16000
    ELSE IF RoundFraction(total[1], total[2]) < -16000 THEN -16000
    ELSE RoundFraction(total[1], total[2])

\* result: [bias, votes]
feedbackBiasForCandidate(step, skill, feedbackEntries) ==
    IF Len(feedbackEntries) = 0 THEN [bias |-> 0, votes |-> 0]
    ELSE [bias |-> clampBias(feedbackTotal(step, skill, feedbackEntries,
                       normalizeTags(step.inputsTags \o step.outputsTags \o step.capabilitiesTags),
                       1, <<0, 1>>)),
          votes |-> Cardinality({k \in DOMAIN feedbackEntries : feedbackEntries[k].skillId = skill.id})]

\* a >= b for two scores
ScoreAtLeast(a, b) == a.exact > b.exact \/ (a.exact = b.exact /\ a.ulps >= b.ulps)

\* the double of a literal of the source, a number of units of 10^-4
Literal(units) == [exact |-> units, ulps |-> 0]

\* The sums evaluateCandidate computes, as <<stage score, input matches, output matches,
\* capability matches, feedback bias, flow overlap, edge bonus>>, by the distance in ulps
\* between the double the additions of the source give and the double nearest to the sum.
\* the additions give the nearest double
SumsNearest ==
    {<<0, 0, 0, 0, -16000, 0, 0>>, <<0, 0, 0, 0, -11680, 0, 0>>, <<0, 0, 0, 0, -8300, 0, 0>>,
     <<0, 0, 0, 0, -7200, 0, 0>>, <<0, 0, 0, 0, -7000, 0, 0>>, <<0, 0, 0, 0, -5056, 0, 0>>,
     <<0, 0, 0, 0, -5056, 0, 11000>>, <<0, 0, 0, 0, -4433, 0, 0>>, <<0, 0, 0, 0, -4433, 1, 0>>,
     <<0, 0, 0, 0, -2007, 0, 0>>, <<0, 0, 0, 0, -2007, 1, 0>>, <<0, 0, 0, 0, -1400, 0, 0>>,
     <<0, 0, 0, 0, -1400, 1, 0>>, <<0, 0, 0, 0, 0, 0, 0>>, <<0, 0, 0, 0, 0, 0, 11000>>,
     <<0, 0, 0, 0, 0, 0, 16000>>, <<0, 0, 0, 0, 0, 1, 0>>, <<0, 0, 0, 0, 0, 1, 11000>>,
     <<0, 0, 0, 0, 560, 0, 0>>, <<0, 0, 0, 0, 700, 0, 0>>, <<0, 0, 0, 0, 1008, 0, 0>>,
     <<0, 0, 0, 0, 1260, 0, 0>>, <<0, 0, 0, 0, 1260, 0, 11000>>, <<0, 0, 0, 0, 1260, 1, 0>>,
     <<0, 0, 0, 0, 1260, 1, 11000>>, <<0, 0, 0, 0, 1600, 0, 0>>, <<0, 0, 0, 0, 1600, 0, 11000>>,
     <<0, 0, 0, 0, 1680, 0, 0>>, <<0, 0, 0, 0, 1680, 0, 11000>>, <<0, 0, 0, 0, 2100, 0, 0>>,
     <<0, 0, 0, 0, 2100, 0, 11000>>, <<0, 0, 0, 0, 2100, 1, 0>>, <<0, 0, 0, 0, 2100, 1, 11000>>,
     <<0, 0, 0, 0, 2800, 0, 0>>, <<0, 0, 0, 0, 2800, 1, 0>>, <<0, 0, 0, 0, 2800, 1, 11000>>,
     <<0, 0, 0, 0, 4200, 0, 0>>, <<0, 0, 0, 0, 4200, 0, 11000>>, <<0, 0, 0, 0, 4200, 1, 0>>,
     <<0, 0, 0, 0, 4200, 1, 11000>>, <<0, 0, 0, 0, 4800, 0, 0>>, <<0, 0, 0, 0, 4800, 0, 11000>>,
     <<0, 0, 0, 0, 6000, 0, 0>>, <<0, 0, 0, 0, 6000, 1, 0>>, <<0, 0, 0, 0, 6000, 1, 11000>>,
     <<0, 0, 0, 0, 7200, 0, 0>>, <<0, 0, 0, 0, 7200, 0, 11000>>, <<0, 0, 0, 0, 7200, 1, 0>>,
     <<0, 0, 0, 0, 12000, 0, 0>>, <<0, 0, 0, 0, 12000, 0, 11000>>, <<0, 0, 0, 0, 12000, 1, 0>>,
     <<0, 0, 0, 0, 12000, 1, 11000>>, <<0, 0, 0, 1, -5056, 0, 0>>, <<0, 0, 0, 1, 0, 0, 0>>,
     <<0, 0, 0, 1, 0, 0, 11000>>, <<0, 0, 0, 1, 1260, 0, 0>>, <<0, 0, 0, 1, 1260, 0, 11000>>,
     <<0, 0, 0, 1, 2100, 0, 0>>, <<0, 0, 0, 1, 2100, 0, 11000>>, <<0, 0, 0, 1, 7200, 0, 0>>,
     <<0, 0, 0, 1, 7200, 0, 11000>>, <<0, 0, 1, 0, -5056, 0, 0>>, <<0, 0, 1, 0, -1400, 0, 0>>,
     <<0, 0, 1, 0, 0, 0, 0>>, <<0, 0, 1, 0, 0, 0, 11000>>, <<0, 0, 1, 0, 1260, 0, 0>>,
     <<0, 0, 1, 0, 1260, 0, 11000>>, <<0, 0, 1, 0, 2100, 0, 0>>, <<0, 0, 1, 0, 2100, 0, 11000>>,
     <<0, 1, 0, 0, -11680, 0, 11000>>, <<0, 1, 0, 0, -11680, 1, 0>>, <<0, 1, 0, 0, -7200, 1, 0>>,
     <<0, 1, 0, 0, -7000, 1, 0>>, <<0, 1, 0, 0, 0, 0, 0>>, <<0, 1, 0, 0, 0, 0, 11000>>,
     <<0, 1, 0, 0, 0, 0, 16000>>, <<0, 1, 0, 0, 0, 1, 0>>, <<0, 1, 0, 0, 0, 1, 11000>>,
     <<0, 1, 0, 0, 560, 0, 0>>, <<0, 1, 0, 0, 700, 0, 0>>, <<0, 1, 0, 0, 700, 1, 0>>,
     <<0, 1, 0, 0, 1260, 0, 11000>>, <<0, 1, 0, 0, 1260, 1, 0>>, <<0, 1, 0, 0, 1260, 1, 11000>>,
     <<0, 1, 0, 0, 2100, 0, 11000>>, <<0, 1, 0, 0, 2100, 1, 0>>, <<0, 1, 0, 0, 2100, 1, 11000>>,
     <<0, 1, 0, 0, 2800, 0, 0>>, <<0, 1, 0, 0, 4200, 0, 11000>>, <<0, 1, 0, 0, 4200, 1, 0>>,
     <<0, 1, 0, 0, 4200, 1, 11000>>, <<0, 1, 0, 0, 7200, 1, 0>>, <<0, 1, 2, 0, -7200, 0, 0>>,
     <<0, 1, 2, 0, -7200, 1, 0>>, <<0, 1, 2, 0, -5056, 0, 11000>>, <<0, 1, 2, 0, -5056, 1, 0>>,
     <<0, 1, 2, 0, 0, 0, 0>>, <<0, 1, 2, 0, 0, 0, 11000>>, <<0, 1, 2, 0, 0, 0, 16000>>,
     <<0, 1, 2, 0, 0, 1, 0>>, <<0, 1, 2, 0, 0, 1, 11000>>, <<0, 1, 2, 0, 1008, 0, 0>>,
     <<0, 1, 2, 0, 1260, 0, 0>>, <<0, 1, 2, 0, 1260, 1, 0>>, <<0, 1, 2, 0, 7200, 0, 0>>,
     <<0, 1, 2, 0, 7200, 0, 11000>>, <<0, 1, 2, 0, 7200, 1, 0>>, <<0, 1, 2, 0, 7200, 1, 11000>>,
     <<0, 1, 2, 1, -7200, 0, 0>>, <<0, 1, 2, 1, -7200, 1, 0>>, <<0, 1, 2, 1, -5056, 0, 0>>,
     <<0, 1, 2, 1, -5056, 1, 0>>, <<0, 1, 2, 1, 0, 0, 0>>, <<0, 1, 2, 1, 0, 1, 0>>,
     <<0, 1, 2, 1, 1260, 0, 11000>>, <<0, 1, 2, 1, 1260, 1, 11000>>, <<0, 1, 2, 1, 7200, 0, 0>>,
     <<0, 1, 2, 1, 7200, 0, 11000>>, <<0, 1, 2, 1, 7200, 1, 0>>, <<0, 1, 2, 1, 7200, 1, 11000>>,
     <<3000, 0, 0, 0, -16000, 0, 0>>, <<3000, 0, 0, 0, -16000, 1, 0>>,
     <<3000, 0, 0, 0, -8300, 0, 0>>, <<3000, 0, 0, 0, -4433, 1, 0>>, <<3000, 0, 0, 0, 0, 0, 0>>,
     <<3000, 0, 0, 0, 0, 1, 0>>, <<3000, 0, 0, 0, 0, 1, 11000>>, <<3000, 0, 0, 0, 0, 1, 16000>>,
     <<3000, 0, 0, 0, 0, 2, 0>>, <<3000, 0, 0, 0, 0, 2, 11000>>, <<3000, 0, 0, 0, 560, 0, 0>>,
     <<3000, 0, 0, 0, 560, 0, 11000>>, <<3000, 0, 0, 0, 700, 0, 0>>, <<3000, 0, 0, 0, 700, 1, 0>>,
     <<3000, 0, 0, 0, 700, 1, 11000>>, <<3000, 0, 0, 0, 700, 2, 0>>,
     <<3000, 0, 0, 0, 700, 2, 11000>>, <<3000, 0, 0, 0, 1600, 0, 11000>>,
     <<3000, 0, 0, 0, 2100, 0, 0>>, <<3000, 0, 0, 0, 2100, 0, 11000>>,
     <<3000, 0, 0, 0, 2100, 1, 0>>, <<3000, 0, 0, 0, 2800, 1, 0>>,
     <<3000, 0, 0, 0, 2800, 1, 11000>>, <<3000, 0, 0, 0, 4200, 0, 0>>,
     <<3000, 0, 0, 0, 4200, 0, 11000>>, <<3000, 0, 0, 0, 4200, 1, 0>>,
     <<3000, 0, 0, 0, 4800, 0, 0>>, <<3000, 0, 0, 0, 12000, 0, 0>>,
     <<3000, 0, 0, 0, 12000, 0, 11000>>, <<3000, 0, 0, 0, 12000, 1, 0>>,
     <<3000, 0, 0, 0, 12000, 1, 11000>>, <<3000, 0, 0, 0, 12000, 2, 0>>,
     <<3000, 0, 0, 0, 12000, 2, 11000>>, <<3000, 0, 0, 1, 0, 0, 11000>>,
     <<3000, 0, 0, 1, 2100, 0, 0>>, <<3000, 0, 0, 1, 2100, 0, 11000>>,
     <<3000, 0, 1, 0, -7200, 2, 0>>, <<3000, 0, 1, 0, -5056, 0, 0>>,
     <<3000, 0, 1, 0, -5056, 0, 11000>>, <<3000, 0, 1, 0, -5056, 1, 0>>,
     <<3000, 0, 1, 0, -5056, 1, 11000>>, <<3000, 0, 1, 0, -5056, 2, 0>>,
     <<3000, 0, 1, 0, -4433, 0, 0>>, <<3000, 0, 1, 0, 0, 0, 11000>>,
     <<3000, 0, 1, 0, 0, 0, 16000>>, <<3000, 0, 1, 0, 0, 1, 11000>>,
     <<3000, 0, 1, 0, 0, 1, 16000>>, <<3000, 0, 1, 0, 0, 2, 11000>>, <<3000, 0, 1, 0, 1008, 1, 0>>,
     <<3000, 0, 1, 0, 1260, 2, 11000>>, <<3000, 0, 1, 0, 2100, 0, 0>>,
     <<3000, 0, 1, 0, 2100, 0, 11000>>, <<3000, 0, 1, 0, 7200, 0, 0>>,
     <<3000, 0, 1, 0, 7200, 0, 11000>>, <<3000, 0, 1, 0, 7200, 1, 0>>,
     <<3000, 0, 1, 0, 7200, 2, 0>>, <<3000, 0, 1, 1, 0, 0, 0>>, <<3000, 0, 1, 1, 0, 0, 11000>>,
     <<3000, 0, 1, 1, 0, 1, 0>>, <<3000, 0, 1, 1, 0, 1, 11000>>, <<3000, 0, 1, 1, 1260, 0, 0>>,
     <<3000, 0, 1, 1, 1260, 0, 11000>>, <<3000, 0, 1, 1, 1260, 1, 0>>,
     <<3000, 0, 1, 1, 1260, 1, 11000>>, <<3000, 0, 1, 1, 7200, 0, 11000>>,
     <<3000, 0, 1, 1, 7200, 1, 0>>, <<3000, 0, 1, 1, 7200, 1, 11000>>,
     <<3000, 0, 1, 2, -5056, 0, 11000>>, <<3000, 0, 1, 2, -5056, 1, 0>>,
     <<3000, 0, 1, 2, 7200, 0, 0>>, <<3000, 0, 1, 2, 7200, 0, 11000>>,
     <<3000, 0, 1, 2, 7200, 1, 0>>, <<3000, 0, 1, 2, 7200, 1, 11000>>,
     <<3000, 0, 2, 0, -2007, 0, 0>>, <<3000, 0, 2, 0, -2007, 0, 11000>>,
     <<3000, 0, 2, 0, -2007, 1, 0>>, <<3000, 0, 2, 0, -1400, 0, 0>>,
     <<3000, 0, 2, 0, -1400, 1, 0>>, <<3000, 0, 2, 0, 0, 0, 0>>, <<3000, 0, 2, 0, 0, 0, 11000>>,
     <<3000, 0, 2, 0, 0, 0, 16000>>, <<3000, 0, 2, 0, 0, 1, 0>>, <<3000, 0, 2, 0, 0, 1, 11000>>,
     <<3000, 0, 2, 0, 1260, 0, 0>>, <<3000, 0, 2, 0, 1260, 0, 11000>>,
     <<3000, 0, 2, 0, 1260, 1, 0>>, <<3000, 0, 2, 0, 1260, 1, 11000>>,
     <<3000, 0, 2, 0, 1680, 0, 0>>, <<3000, 0, 2, 0, 2800, 1, 0>>, <<3000, 0, 2, 0, 6000, 0, 0>>,
     <<3000, 0, 2, 0, 6000, 0, 11000>>, <<3000, 0, 2, 0, 6000, 1, 0>>,
     <<3000, 0, 2, 0, 6000, 1, 11000>>, <<3000, 0, 2, 0, 7200, 0, 11000>>,
     <<3000, 0, 2, 0, 7200, 1, 0>>, <<3000, 0, 2, 0, 7200, 1, 11000>>,
     <<3000, 0, 2, 2, -7200, 0, 0>>, <<3000, 0, 2, 2, -5056, 0, 0>>, <<3000, 0, 2, 2, 0, 0, 0>>,
     <<3000, 0, 2, 2, 1260, 0, 11000>>, <<3000, 0, 2, 2, 7200, 0, 0>>,
     <<3000, 0, 2, 2, 7200, 0, 11000>>, <<3000, 1, 0, 0, -11680, 1, 0>>,
     <<3000, 1, 0, 0, -8300, 0, 0>>, <<3000, 1, 0, 0, -8300, 1, 0>>,
     <<3000, 1, 0, 0, -7000, 0, 0>>, <<3000, 1, 0, 0, -7000, 1, 0>>,
     <<3000, 1, 0, 0, -4433, 0, 0>>, <<3000, 1, 0, 0, -4433, 1, 0>>,
     <<3000, 1, 0, 0, -1400, 0, 0>>, <<3000, 1, 0, 0, -1400, 1, 0>>, <<3000, 1, 0, 0, 0, 0, 0>>,
     <<3000, 1, 0, 0, 0, 0, 11000>>, <<3000, 1, 0, 0, 0, 1, 0>>, <<3000, 1, 0, 0, 0, 1, 11000>>,
     <<3000, 1, 0, 0, 700, 0, 0>>, <<3000, 1, 0, 0, 700, 0, 11000>>, <<3000, 1, 0, 0, 700, 1, 0>>,
     <<3000, 1, 0, 0, 700, 1, 11000>>, <<3000, 1, 0, 0, 2100, 0, 0>>,
     <<3000, 1, 0, 0, 2100, 0, 11000>>, <<3000, 1, 0, 0, 2100, 1, 0>>,
     <<3000, 1, 0, 0, 2100, 1, 11000>>, <<3000, 1, 0, 0, 2800, 0, 0>>,
     <<3000, 1, 0, 0, 2800, 0, 11000>>, <<3000, 1, 0, 0, 2800, 1, 0>>,
     <<3000, 1, 0, 0, 2800, 1, 11000>>, <<3000, 1, 0, 0, 4200, 1, 0>>,
     <<3000, 1, 0, 0, 12000, 0, 0>>, <<3000, 1, 0, 0, 12000, 0, 11000>>,
     <<3000, 1, 0, 0, 12000, 1, 0>>, <<3000, 1, 0, 0, 12000, 1, 11000>>,
     <<3000, 1, 1, 0, -7200, 0, 0>>, <<3000, 1, 1, 0, -7200, 1, 0>>, <<3000, 1, 1, 0, 0, 0, 0>>,
     <<3000, 1, 1, 0, 0, 0, 11000>>, <<3000, 1, 1, 0, 0, 1, 0>>, <<3000, 1, 1, 0, 0, 1, 11000>>,
     <<3000, 1, 1, 0, 1260, 0, 11000>>, <<3000, 1, 1, 0, 1260, 1, 11000>>,
     <<3000, 1, 1, 0, 7200, 1, 0>>, <<3000, 1, 1, 2, -7200, 0, 0>>, <<3000, 1, 1, 2, -7200, 1, 0>>,
     <<3000, 1, 1, 2, -5056, 0, 0>>, <<3000, 1, 1, 2, -5056, 1, 0>>, <<3000, 1, 1, 2, 0, 0, 0>>,
     <<3000, 1, 1, 2, 0, 0, 11000>>, <<3000, 1, 1, 2, 0, 1, 0>>, <<3000, 1, 1, 2, 0, 1, 11000>>,
     <<3000, 1, 1, 2, 1260, 0, 0>>, <<3000, 1, 1, 2, 1260, 1, 0>>, <<3000, 1, 1, 2, 7200, 0, 0>>,
     <<3000, 1, 1, 2, 7200, 0, 11000>>, <<3000, 1, 1, 2, 7200, 1, 0>>,
     <<3000, 1, 1, 2, 7200, 1, 11000>>, <<10000, 0, 0, 0, -11680, 2, 0>>,
     <<10000, 0, 0, 0, -8300, 0, 11000>>, <<10000, 0, 0, 0, -8300, 1, 0>>,
     <<10000, 0, 0, 0, -8300, 1, 11000>>, <<10000, 0, 0, 0, -8300, 2, 0>>,
     <<10000, 0, 0, 0, -7200, 0, 0>>, <<10000, 0, 0, 0, -7200, 1, 0>>,
     <<10000, 0, 0, 0, -7200, 2, 0>>, <<10000, 0, 0, 0, -7000, 1, 0>>,
     <<10000, 0, 0, 0, -7000, 2, 0>>, <<10000, 0, 0, 0, -5056, 0, 11000>>,
     <<10000, 0, 0, 0, -5056, 1, 0>>, <<10000, 0, 0, 0, -5056, 2, 0>>,
     <<10000, 0, 0, 0, -4433, 0, 0>>, <<10000, 0, 0, 0, -4433, 0, 11000>>,
     <<10000, 0, 0, 0, -4433, 1, 0>>, <<10000, 0, 0, 0, -2007, 0, 0>>,
     <<10000, 0, 0, 0, -1400, 0, 0>>, <<10000, 0, 0, 0, 0, 0, 0>>, <<10000, 0, 0, 0, 0, 0, 11000>>,
     <<10000, 0, 0, 0, 0, 0, 16000>>, <<10000, 0, 0, 0, 0, 1, 0>>, <<10000, 0, 0, 0, 0, 1, 11000>>,
     <<10000, 0, 0, 0, 0, 1, 16000>>, <<10000, 0, 0, 0, 0, 2, 0>>, <<10000, 0, 0, 0, 0, 2, 11000>>,
     <<10000, 0, 0, 0, 560, 0, 0>>, <<10000, 0, 0, 0, 560, 1, 0>>, <<10000, 0, 0, 0, 700, 0, 0>>,
     <<10000, 0, 0, 0, 700, 0, 11000>>, <<10000, 0, 0, 0, 700, 1, 0>>,
     <<10000, 0, 0, 0, 700, 1, 11000>>, <<10000, 0, 0, 0, 700, 2, 11000>>,
     <<10000, 0, 0, 0, 1008, 0, 0>>, <<10000, 0, 0, 0, 1008, 1, 0>>,
     <<10000, 0, 0, 0, 1008, 1, 11000>>, <<10000, 0, 0, 0, 1260, 0, 0>>,
     <<10000, 0, 0, 0, 1260, 0, 11000>>, <<10000, 0, 0, 0, 1260, 1, 0>>,
     <<10000, 0, 0, 0, 1260, 1, 11000>>, <<10000, 0, 0, 0, 1260, 2, 0>>,
     <<10000, 0, 0, 0, 1260, 2, 11000>>, <<10000, 0, 0, 0, 1600, 0, 0>>,
     <<10000, 0, 0, 0, 1600, 1, 0>>, <<10000, 0, 0, 0, 1600, 1, 11000>>,
     <<10000, 0, 0, 0, 1680, 0, 0>>, <<10000, 0, 0, 0, 2100, 0, 0>>,
     <<10000, 0, 0, 0, 2100, 0, 11000>>, <<10000, 0, 0, 0, 2100, 1, 0>>,
     <<10000, 0, 0, 0, 2100, 1, 11000>>, <<10000, 0, 0, 0, 2800, 0, 0>>,
     <<10000, 0, 0, 0, 2800, 0, 11000>>, <<10000, 0, 0, 0, 2800, 1, 11000>>,
     <<10000, 0, 0, 0, 4200, 0, 0>>, <<10000, 0, 0, 0, 4200, 0, 11000>>,
     <<10000, 0, 0, 0, 4200, 1, 0>>, <<10000, 0, 0, 0, 4200, 1, 11000>>,
     <<10000, 0, 0, 0, 4200, 2, 0>>, <<10000, 0, 0, 0, 4200, 2, 11000>>,
     <<10000, 0, 0, 0, 4800, 0, 0>>, <<10000, 0, 0, 0, 4800, 0, 11000>>,
     <<10000, 0, 0, 0, 6000, 0, 0>>, <<10000, 0, 0, 0, 6000, 0, 11000>>,
     <<10000, 0, 0, 0, 6000, 1, 0>>, <<10000, 0, 0, 0, 6000, 1, 11000>>,
     <<10000, 0, 0, 0, 7200, 0, 0>>, <<10000, 0, 0, 0, 7200, 2, 11000>>,
     <<10000, 0, 0, 0, 12000, 0, 0>>, <<10000, 0, 0, 0, 12000, 1, 0>>,
     <<10000, 0, 0, 0, 12000, 2, 0>>, <<10000, 0, 0, 1, -7200, 1, 0>>,
     <<10000, 0, 0, 1, -5056, 0, 0>>, <<10000, 0, 0, 1, -4433, 0, 0>>,
     <<10000, 0, 0, 1, -4433, 1, 0>>, <<10000, 0, 0, 1, -1400, 0, 0>>,
     <<10000, 0, 0, 1, -1400, 1, 0>>, <<10000, 0, 0, 1, 0, 0, 0>>, <<10000, 0, 0, 1, 0, 0, 11000>>,
     <<10000, 0, 0, 1, 0, 1, 0>>, <<10000, 0, 0, 1, 0, 1, 11000>>, <<10000, 0, 0, 1, 1260, 0, 0>>,
     <<10000, 0, 0, 1, 1260, 0, 11000>>, <<10000, 0, 0, 1, 1260, 1, 0>>,
     <<10000, 0, 0, 1, 2100, 0, 0>>, <<10000, 0, 0, 1, 2100, 0, 11000>>,
     <<10000, 0, 0, 1, 2100, 1, 0>>, <<10000, 0, 0, 1, 2100, 1, 11000>>,
     <<10000, 0, 0, 1, 2800, 0, 0>>, <<10000, 0, 0, 1, 2800, 0, 11000>>,
     <<10000, 0, 0, 1, 2800, 1, 0>>, <<10000, 0, 0, 1, 2800, 1, 11000>>,
     <<10000, 0, 0, 1, 7200, 1, 11000>>, <<10000, 0, 1, 0, -7200, 1, 0>>,
     <<10000, 0, 1, 0, -5056, 0, 0>>, <<10000, 0, 1, 0, -4433, 0, 0>>,
     <<10000, 0, 1, 0, -4433, 1, 0>>, <<10000, 0, 1, 0, -2007, 0, 0>>,
     <<10000, 0, 1, 0, -2007, 1, 0>>, <<10000, 0, 1, 0, -2007, 2, 0>>,
     <<10000, 0, 1, 0, -1400, 0, 0>>, <<10000, 0, 1, 0, -1400, 1, 0>>,
     <<10000, 0, 1, 0, -1400, 2, 0>>, <<10000, 0, 1, 0, 0, 0, 0>>, <<10000, 0, 1, 0, 0, 0, 11000>>,
     <<10000, 0, 1, 0, 0, 0, 16000>>, <<10000, 0, 1, 0, 0, 1, 0>>, <<10000, 0, 1, 0, 0, 1, 11000>>,
     <<10000, 0, 1, 0, 0, 1, 16000>>, <<10000, 0, 1, 0, 0, 2, 0>>, <<10000, 0, 1, 0, 0, 2, 11000>>,
     <<10000, 0, 1, 0, 1260, 0, 0>>, <<10000, 0, 1, 0, 1260, 0, 11000>>,
     <<10000, 0, 1, 0, 1260, 1, 0>>, <<10000, 0, 1, 0, 2100, 0, 0>>,
     <<10000, 0, 1, 0, 2100, 0, 11000>>, <<10000, 0, 1, 0, 2100, 1, 0>>,
     <<10000, 0, 1, 0, 2100, 1, 11000>>, <<10000, 0, 1, 0, 2800, 0, 0>>,
     <<10000, 0, 1, 0, 2800, 0, 11000>>, <<10000, 0, 1, 0, 2800, 1, 0>>,
     <<10000, 0, 1, 0, 2800, 1, 11000>>, <<10000, 0, 1, 0, 2800, 2, 0>>,
     <<10000, 0, 1, 0, 2800, 2, 11000>>, <<10000, 0, 1, 0, 4800, 0, 0>>,
     <<10000, 0, 1, 0, 4800, 0, 11000>>, <<10000, 0, 1, 0, 6000, 0, 0>>,
     <<10000, 0, 1, 0, 6000, 1, 0>>, <<10000, 0, 1, 0, 6000, 2, 0>>,
     <<10000, 0, 1, 0, 7200, 0, 11000>>, <<10000, 0, 1, 0, 7200, 1, 11000>>,
     <<10000, 0, 1, 1, -1400, 0, 0>>, <<10000, 0, 1, 1, 0, 0, 0>>, <<10000, 0, 1, 1, 0, 1, 0>>,
     <<10000, 0, 1, 1, 2100, 0, 0>>, <<10000, 0, 1, 1, 2100, 0, 11000>>,
     <<10000, 0, 1, 1, 2100, 1, 0>>, <<10000, 0, 1, 1, 2100, 1, 11000>>,
     <<10000, 0, 1, 1, 2800, 0, 11000>>, <<10000, 0, 1, 1, 2800, 1, 0>>,
     <<10000, 0, 1, 1, 2800, 1, 11000>>, <<10000, 0, 2, 0, -2007, 1, 0>>,
     <<10000, 0, 2, 0, -1400, 0, 0>>, <<10000, 0, 2, 0, 0, 0, 0>>, <<10000, 0, 2, 0, 0, 1, 0>>,
     <<10000, 0, 2, 0, 2800, 0, 11000>>, <<10000, 0, 2, 0, 2800, 1, 0>>,
     <<10000, 0, 2, 0, 2800, 1, 11000>>, <<10000, 0, 2, 0, 6000, 0, 0>>,
     <<10000, 0, 2, 0, 6000, 0, 11000>>, <<10000, 0, 2, 0, 6000, 1, 0>>,
     <<10000, 0, 2, 0, 6000, 1, 11000>>, <<10000, 1, 0, 0, -11680, 0, 0>>,
     <<10000, 1, 0, 0, -11680, 0, 11000>>, <<10000, 1, 0, 0, -11680, 1, 0>>,
     <<10000, 1, 0, 0, -8300, 0, 11000>>, <<10000, 1, 0, 0, -8300, 1, 0>>,
     <<10000, 1, 0, 0, -7200, 0, 0>>, <<10000, 1, 0, 0, -7000, 0, 0>>,
     <<10000, 1, 0, 0, -7000, 1, 0>>, <<10000, 1, 0, 0, -5056, 1, 0>>,
     <<10000, 1, 0, 0, -4433, 0, 11000>>, <<10000, 1, 0, 0, -4433, 1, 11000>>,
     <<10000, 1, 0, 0, -1400, 0, 0>>, <<10000, 1, 0, 0, -1400, 1, 0>>,
     <<10000, 1, 0, 0, -1400, 2, 0>>, <<10000, 1, 0, 0, 0, 0, 0>>, <<10000, 1, 0, 0, 0, 0, 11000>>,
     <<10000, 1, 0, 0, 0, 0, 16000>>, <<10000, 1, 0, 0, 0, 1, 0>>, <<10000, 1, 0, 0, 0, 1, 11000>>,
     <<10000, 1, 0, 0, 0, 1, 16000>>, <<10000, 1, 0, 0, 0, 2, 0>>, <<10000, 1, 0, 0, 0, 2, 11000>>,
     <<10000, 1, 0, 0, 560, 0, 0>>, <<10000, 1, 0, 0, 560, 0, 11000>>,
     <<10000, 1, 0, 0, 700, 0, 11000>>, <<10000, 1, 0, 0, 700, 1, 11000>>,
     <<10000, 1, 0, 0, 1260, 0, 0>>, <<10000, 1, 0, 0, 1260, 0, 11000>>,
     <<10000, 1, 0, 0, 1260, 1, 0>>, <<10000, 1, 0, 0, 1600, 0, 0>>,
     <<10000, 1, 0, 0, 1600, 0, 11000>>, <<10000, 1, 0, 0, 2100, 0, 0>>,
     <<10000, 1, 0, 0, 2100, 0, 11000>>, <<10000, 1, 0, 0, 2100, 1, 0>>,
     <<10000, 1, 0, 0, 2100, 1, 11000>>, <<10000, 1, 0, 0, 2100, 2, 0>>,
     <<10000, 1, 0, 0, 2100, 2, 11000>>, <<10000, 1, 0, 0, 2800, 0, 11000>>,
     <<10000, 1, 0, 0, 4200, 0, 0>>, <<10000, 1, 0, 0, 4200, 0, 11000>>,
     <<10000, 1, 0, 0, 4200, 1, 0>>, <<10000, 1, 0, 0, 4200, 1, 11000>>,
     <<10000, 1, 0, 0, 4800, 0, 0>>, <<10000, 1, 0, 0, 4800, 1, 0>>,
     <<10000, 1, 0, 0, 4800, 1, 11000>>, <<10000, 1, 0, 0, 7200, 0, 0>>,
     <<10000, 1, 0, 0, 7200, 0, 11000>>, <<10000, 1, 0, 0, 7200, 1, 0>>,
     <<10000, 1, 0, 0, 12000, 1, 0>>, <<10000, 1, 0, 1, -4433, 0, 0>>,
     <<10000, 1, 0, 1, -4433, 1, 0>>, <<10000, 1, 0, 1, -1400, 0, 0>>,
     <<10000, 1, 0, 1, -1400, 1, 0>>, <<10000, 1, 0, 1, 0, 0, 0>>, <<10000, 1, 0, 1, 0, 0, 11000>>,
     <<10000, 1, 0, 1, 0, 1, 0>>, <<10000, 1, 0, 1, 0, 1, 11000>>, <<10000, 1, 0, 1, 2100, 0, 0>>,
     <<10000, 1, 0, 1, 2100, 1, 0>>, <<10000, 1, 0, 1, 2800, 1, 0>>,
     <<10000, 1, 1, 0, -5056, 0, 11000>>, <<10000, 1, 1, 0, -4433, 0, 0>>,
     <<10000, 1, 1, 0, -4433, 1, 0>>, <<10000, 1, 1, 0, -1400, 0, 0>>, <<10000, 1, 1, 0, 0, 0, 0>>,
     <<10000, 1, 1, 0, 0, 0, 11000>>, <<10000, 1, 1, 0, 0, 0, 16000>>, <<10000, 1, 1, 0, 0, 1, 0>>,
     <<10000, 1, 1, 0, 0, 1, 11000>>, <<10000, 1, 1, 0, 1008, 0, 0>>,
     <<10000, 1, 1, 0, 1008, 0, 11000>>, <<10000, 1, 1, 0, 1260, 0, 0>>,
     <<10000, 1, 1, 0, 1260, 0, 11000>>, <<10000, 1, 1, 0, 1260, 1, 11000>>,
     <<10000, 1, 1, 0, 2100, 0, 0>>, <<10000, 1, 1, 0, 2100, 1, 0>>,
     <<10000, 1, 1, 0, 2800, 1, 0>>, <<10000, 1, 1, 0, 7200, 0, 0>>,
     <<10000, 1, 1, 0, 7200, 0, 11000>>, <<10000, 1, 1, 0, 7200, 1, 0>>,
     <<10000, 1, 1, 0, 7200, 1, 11000>>, <<10000, 1, 1, 1, -7200, 0, 0>>,
     <<10000, 1, 1, 1, -7200, 1, 0>>, <<10000, 1, 1, 1, 0, 0, 0>>, <<10000, 1, 1, 1, 0, 1, 0>>,
     <<10000, 1, 1, 1, 1260, 0, 0>>, <<10000, 1, 1, 1, 1260, 1, 0>>,
     <<10000, 1, 1, 1, 7200, 0, 11000>>, <<10000, 1, 1, 1, 7200, 1, 11000>>,
     <<10000, 1, 2, 0, -7200, 0, 0>>, <<10000, 1, 2, 0, -7200, 1, 0>>, <<10000, 1, 2, 0, 0, 0, 0>>,
     <<10000, 1, 2, 0, 0, 1, 0>>, <<10000, 1, 2, 0, 1260, 0, 0>>, <<10000, 1, 2, 0, 1260, 1, 0>>,
     <<10000, 1, 2, 0, 7200, 0, 11000>>, <<10000, 1, 2, 0, 7200, 1, 11000>>,
     <<20000, 0, 0, 0, -16000, 1, 0>>, <<20000, 0, 0, 0, -11680, 1, 0>>,
     <<20000, 0, 0, 0, -8300, 0, 0>>, <<20000, 0, 0, 0, -8300, 0, 11000>>,
     <<20000, 0, 0, 0, -8300, 1, 0>>, <<20000, 0, 0, 0, -8300, 1, 11000>>,
     <<20000, 0, 0, 0, -8300, 2, 0>>, <<20000, 0, 0, 0, -7200, 0, 0>>,
     <<20000, 0, 0, 0, -7000, 0, 0>>, <<20000, 0, 0, 0, -7000, 1, 0>>,
     <<20000, 0, 0, 0, -7000, 2, 0>>, <<20000, 0, 0, 0, -5056, 0, 0>>,
     <<20000, 0, 0, 0, -4433, 0, 0>>, <<20000, 0, 0, 0, -4433, 0, 11000>>,
     <<20000, 0, 0, 0, -4433, 1, 0>>, <<20000, 0, 0, 0, -2007, 0, 11000>>,
     <<20000, 0, 0, 0, -2007, 1, 0>>, <<20000, 0, 0, 0, -2007, 1, 11000>>,
     <<20000, 0, 0, 0, -2007, 2, 0>>, <<20000, 0, 0, 0, -1400, 1, 0>>,
     <<20000, 0, 0, 0, -1400, 2, 0>>, <<20000, 0, 0, 0, 0, 0, 0>>, <<20000, 0, 0, 0, 0, 0, 11000>>,
     <<20000, 0, 0, 0, 0, 0, 16000>>, <<20000, 0, 0, 0, 0, 1, 0>>, <<20000, 0, 0, 0, 0, 1, 11000>>,
     <<20000, 0, 0, 0, 0, 1, 16000>>, <<20000, 0, 0, 0, 0, 2, 0>>, <<20000, 0, 0, 0, 0, 2, 11000>>,
     <<20000, 0, 0, 0, 560, 0, 0>>, <<20000, 0, 0, 0, 560, 0, 11000>>,
     <<20000, 0, 0, 0, 700, 0, 0>>, <<20000, 0, 0, 0, 700, 0, 11000>>,
     <<20000, 0, 0, 0, 700, 1, 0>>, <<20000, 0, 0, 0, 700, 1, 11000>>,
     <<20000, 0, 0, 0, 700, 2, 0>>, <<20000, 0, 0, 0, 700, 2, 11000>>,
     <<20000, 0, 0, 0, 1008, 0, 0>>, <<20000, 0, 0, 0, 1008, 0, 11000>>,
     <<20000, 0, 0, 0, 1260, 0, 0>>, <<20000, 0, 0, 0, 1260, 0, 11000>>,
     <<20000, 0, 0, 0, 1260, 1, 0>>, <<20000, 0, 0, 0, 1260, 1, 11000>>,
     <<20000, 0, 0, 0, 1600, 0, 0>>, <<20000, 0, 0, 0, 1600, 1, 0>>,
     <<20000, 0, 0, 0, 1680, 0, 0>>, <<20000, 0, 0, 0, 1680, 1, 0>>,
     <<20000, 0, 0, 0, 2100, 0, 0>>, <<20000, 0, 0, 0, 2100, 0, 11000>>,
     <<20000, 0, 0, 0, 2100, 1, 0>>, <<20000, 0, 0, 0, 4200, 0, 0>>,
     <<20000, 0, 0, 0, 4200, 0, 11000>>, <<20000, 0, 0, 0, 4200, 1, 0>>,
     <<20000, 0, 0, 0, 4200, 1, 11000>>, <<20000, 0, 0, 0, 4200, 2, 0>>,
     <<20000, 0, 0, 0, 4200, 2, 11000>>, <<20000, 0, 0, 0, 4800, 0, 0>>,
     <<20000, 0, 0, 0, 4800, 0, 11000>>, <<20000, 0, 0, 0, 6000, 0, 0>>,
     <<20000, 0, 0, 0, 6000, 0, 11000>>, <<20000, 0, 0, 0, 6000, 1, 0>>,
     <<20000, 0, 0, 0, 6000, 1, 11000>>, <<20000, 0, 0, 0, 6000, 2, 0>>,
     <<20000, 0, 0, 0, 6000, 2, 11000>>, <<20000, 0, 0, 0, 7200, 0, 11000>>,
     <<20000, 0, 0, 0, 7200, 1, 11000>>, <<20000, 0, 0, 0, 12000, 0, 0>>,
     <<20000, 0, 0, 0, 12000, 1, 0>>, <<20000, 0, 0, 1, -7200, 0, 0>>,
     <<20000, 0, 0, 1, -4433, 0, 0>>, <<20000, 0, 0, 1, -1400, 0, 0>>, <<20000, 0, 0, 1, 0, 0, 0>>,
     <<20000, 0, 0, 1, 0, 0, 11000>>, <<20000, 0, 0, 1, 1260, 0, 0>>,
     <<20000, 0, 0, 1, 2100, 0, 0>>, <<20000, 0, 0, 1, 2100, 0, 11000>>,
     <<20000, 0, 0, 1, 2800, 0, 0>>, <<20000, 0, 0, 1, 2800, 0, 11000>>,
     <<20000, 0, 0, 1, 7200, 0, 11000>>, <<20000, 0, 1, 0, -7200, 0, 0>>,
     <<20000, 0, 1, 0, -4433, 0, 0>>, <<20000, 0, 1, 0, -2007, 0, 0>>,
     <<20000, 0, 1, 0, -2007, 0, 11000>>, <<20000, 0, 1, 0, -2007, 1, 0>>,
     <<20000, 0, 1, 0, -1400, 0, 0>>, <<20000, 0, 1, 0, -1400, 1, 0>>, <<20000, 0, 1, 0, 0, 0, 0>>,
     <<20000, 0, 1, 0, 0, 0, 11000>>, <<20000, 0, 1, 0, 0, 0, 16000>>, <<20000, 0, 1, 0, 0, 1, 0>>,
     <<20000, 0, 1, 0, 0, 1, 11000>>, <<20000, 0, 1, 0, 1260, 0, 0>>,
     <<20000, 0, 1, 0, 2100, 0, 0>>, <<20000, 0, 1, 0, 2100, 0, 11000>>,
     <<20000, 0, 1, 0, 2800, 0, 0>>, <<20000, 0, 1, 0, 2800, 0, 11000>>,
     <<20000, 0, 1, 0, 2800, 1, 0>>, <<20000, 0, 1, 0, 2800, 1, 11000>>,
     <<20000, 0, 1, 0, 6000, 0, 0>>, <<20000, 0, 1, 0, 6000, 1, 0>>,
     <<20000, 0, 1, 0, 7200, 0, 0>>, <<20000, 0, 1, 0, 7200, 0, 11000>>,
     <<20000, 0, 2, 0, -2007, 0, 0>>, <<20000, 0, 2, 0, -2007, 1, 0>>, <<20000, 0, 2, 0, 0, 0, 0>>,
     <<20000, 0, 2, 0, 0, 1, 0>>, <<20000, 0, 2, 0, 2800, 0, 0>>,
     <<20000, 0, 2, 0, 2800, 0, 11000>>, <<20000, 0, 2, 0, 2800, 1, 0>>,
     <<20000, 0, 2, 0, 2800, 1, 11000>>, <<20000, 0, 2, 0, 6000, 0, 0>>,
     <<20000, 0, 2, 0, 6000, 0, 11000>>, <<20000, 0, 2, 0, 6000, 1, 0>>,
     <<20000, 0, 2, 0, 6000, 1, 11000>>, <<20000, 1, 0, 0, -16000, 1, 0>>,
     <<20000, 1, 0, 0, -11680, 0, 0>>, <<20000, 1, 0, 0, -11680, 1, 0>>,
     <<20000, 1, 0, 0, -8300, 0, 0>>, <<20000, 1, 0, 0, -8300, 1, 0>>,
     <<20000, 1, 0, 0, -7000, 0, 0>>, <<20000, 1, 0, 0, -7000, 1, 0>>,
     <<20000, 1, 0, 0, -5056, 0, 0>>, <<20000, 1, 0, 0, -5056, 1, 0>>,
     <<20000, 1, 0, 0, -1400, 0, 0>>, <<20000, 1, 0, 0, -1400, 1, 0>>, <<20000, 1, 0, 0, 0, 0, 0>>,
     <<20000, 1, 0, 0, 0, 0, 11000>>, <<20000, 1, 0, 0, 0, 1, 0>>, <<20000, 1, 0, 0, 0, 1, 11000>>,
     <<20000, 1, 0, 0, 700, 0, 11000>>, <<20000, 1, 0, 0, 700, 1, 11000>>,
     <<20000, 1, 0, 0, 1260, 0, 0>>, <<20000, 1, 0, 0, 1260, 1, 0>>,
     <<20000, 1, 0, 0, 2100, 0, 0>>, <<20000, 1, 0, 0, 2100, 0, 11000>>,
     <<20000, 1, 0, 0, 2100, 1, 11000>>, <<20000, 1, 0, 0, 2800, 1, 0>>,
     <<20000, 1, 0, 0, 4200, 0, 0>>, <<20000, 1, 0, 0, 4200, 0, 11000>>,
     <<20000, 1, 0, 0, 4200, 1, 0>>, <<20000, 1, 0, 0, 4200, 1, 11000>>,
     <<20000, 1, 0, 0, 7200, 0, 0>>, <<20000, 1, 0, 0, 7200, 1, 0>>,
     <<20000, 1, 0, 0, 12000, 0, 0>>, <<20000, 1, 0, 0, 12000, 1, 0>>,
     <<20000, 1, 1, 1, -4433, 0, 0>>, <<20000, 1, 1, 1, -4433, 0, 11000>>,
     <<20000, 1, 1, 1, -4433, 1, 0>>, <<20000, 1, 1, 1, -4433, 1, 11000>>,
     <<20000, 1, 1, 1, -4433, 2, 0>>, <<20000, 1, 1, 1, -1400, 0, 0>>,
     <<20000, 1, 1, 1, -1400, 1, 0>>, <<20000, 1, 1, 1, -1400, 2, 0>>, <<20000, 1, 1, 1, 0, 0, 0>>,
     <<20000, 1, 1, 1, 0, 1, 0>>, <<20000, 1, 1, 1, 0, 2, 0>>, <<20000, 1, 1, 1, 0, 2, 11000>>,
     <<20000, 1, 1, 1, 2100, 0, 0>>, <<20000, 1, 1, 1, 2100, 0, 11000>>,
     <<20000, 1, 1, 1, 2100, 1, 0>>, <<20000, 1, 1, 1, 2100, 1, 11000>>,
     <<20000, 1, 1, 1, 2100, 2, 0>>, <<20000, 1, 1, 1, 2100, 2, 11000>>,
     <<20000, 1, 1, 1, 2800, 0, 0>>, <<20000, 1, 1, 1, 2800, 0, 11000>>,
     <<20000, 1, 1, 1, 2800, 1, 0>>, <<20000, 1, 1, 1, 2800, 1, 11000>>,
     <<20000, 1, 1, 1, 2800, 2, 0>>, <<20000, 1, 1, 1, 2800, 2, 11000>>,
     <<20000, 1, 1, 1, 4800, 0, 0>>, <<20000, 1, 1, 1, 4800, 0, 11000>>,
     <<20000, 1, 1, 1, 4800, 1, 0>>, <<20000, 1, 1, 1, 4800, 1, 11000>>}

\* one ulp above
SumsAbove ==
    {<<0, 0, 0, 0, -11680, 1, 0>>, <<0, 0, 0, 0, -4433, 0, 11000>>,
     <<0, 0, 0, 0, -2007, 0, 11000>>, <<0, 0, 0, 0, 560, 0, 11000>>, <<0, 0, 0, 0, 700, 0, 11000>>,
     <<0, 0, 0, 0, 700, 1, 0>>, <<0, 0, 0, 0, 700, 1, 11000>>, <<0, 0, 0, 0, 2800, 0, 11000>>,
     <<0, 0, 0, 0, 6000, 0, 11000>>, <<0, 0, 0, 0, 7200, 1, 11000>>, <<0, 0, 0, 1, -4433, 0, 0>>,
     <<0, 0, 0, 1, -1400, 0, 0>>, <<0, 0, 0, 1, 2800, 0, 0>>, <<0, 0, 0, 1, 2800, 0, 11000>>,
     <<0, 0, 1, 0, -7200, 0, 0>>, <<0, 0, 1, 0, -4433, 0, 0>>, <<0, 0, 1, 0, -2007, 0, 0>>,
     <<0, 0, 1, 0, 2800, 0, 0>>, <<0, 0, 1, 0, 2800, 0, 11000>>, <<0, 0, 1, 0, 6000, 0, 0>>,
     <<0, 0, 1, 0, 6000, 0, 11000>>, <<0, 0, 1, 0, 7200, 0, 0>>, <<0, 0, 1, 0, 7200, 0, 11000>>,
     <<0, 1, 0, 0, 700, 0, 11000>>, <<0, 1, 0, 0, 700, 1, 11000>>, <<0, 1, 0, 0, 2800, 0, 11000>>,
     <<0, 1, 0, 0, 2800, 1, 11000>>, <<0, 1, 2, 0, -5056, 0, 0>>, <<0, 1, 2, 0, 1008, 0, 11000>>,
     <<0, 1, 2, 0, 1260, 0, 11000>>, <<0, 1, 2, 0, 1260, 1, 11000>>, <<0, 1, 2, 1, 0, 0, 11000>>,
     <<0, 1, 2, 1, 0, 1, 11000>>, <<0, 1, 2, 1, 1260, 0, 0>>, <<0, 1, 2, 1, 1260, 1, 0>>,
     <<3000, 0, 0, 0, -11680, 0, 0>>, <<3000, 0, 0, 0, -11680, 2, 0>>,
     <<3000, 0, 0, 0, -8300, 0, 11000>>, <<3000, 0, 0, 0, -7000, 0, 0>>,
     <<3000, 0, 0, 0, -7000, 1, 0>>, <<3000, 0, 0, 0, -4433, 0, 11000>>,
     <<3000, 0, 0, 0, 0, 0, 11000>>, <<3000, 0, 0, 0, 0, 0, 16000>>,
     <<3000, 0, 0, 0, 700, 0, 11000>>, <<3000, 0, 0, 0, 2100, 1, 11000>>,
     <<3000, 0, 0, 0, 2800, 0, 0>>, <<3000, 0, 0, 0, 2800, 0, 11000>>,
     <<3000, 0, 0, 0, 4200, 1, 11000>>, <<3000, 0, 0, 1, -4433, 0, 0>>,
     <<3000, 0, 0, 1, -1400, 0, 0>>, <<3000, 0, 0, 1, 0, 0, 0>>, <<3000, 0, 0, 1, 2800, 0, 0>>,
     <<3000, 0, 0, 1, 2800, 0, 11000>>, <<3000, 0, 1, 0, -7200, 0, 0>>,
     <<3000, 0, 1, 0, -7200, 1, 0>>, <<3000, 0, 1, 0, -1400, 0, 0>>, <<3000, 0, 1, 0, 0, 0, 0>>,
     <<3000, 0, 1, 0, 0, 1, 0>>, <<3000, 0, 1, 0, 0, 2, 0>>, <<3000, 0, 1, 0, 1008, 0, 0>>,
     <<3000, 0, 1, 0, 1260, 0, 0>>, <<3000, 0, 1, 0, 1260, 0, 11000>>,
     <<3000, 0, 1, 0, 1260, 1, 0>>, <<3000, 0, 1, 0, 1260, 1, 11000>>,
     <<3000, 0, 1, 0, 1260, 2, 0>>, <<3000, 0, 1, 0, 2800, 0, 0>>,
     <<3000, 0, 1, 0, 2800, 0, 11000>>, <<3000, 0, 1, 0, 7200, 1, 11000>>,
     <<3000, 0, 1, 0, 7200, 2, 11000>>, <<3000, 0, 1, 1, -7200, 0, 0>>,
     <<3000, 0, 1, 1, -7200, 1, 0>>, <<3000, 0, 1, 2, -5056, 0, 0>>, <<3000, 0, 1, 2, 0, 0, 0>>,
     <<3000, 0, 1, 2, 0, 0, 11000>>, <<3000, 0, 1, 2, 0, 0, 16000>>, <<3000, 0, 1, 2, 0, 1, 0>>,
     <<3000, 0, 1, 2, 0, 1, 11000>>, <<3000, 0, 1, 2, 1008, 0, 0>>,
     <<3000, 0, 1, 2, 1008, 0, 11000>>, <<3000, 0, 1, 2, 1260, 0, 0>>,
     <<3000, 0, 1, 2, 1260, 0, 11000>>, <<3000, 0, 1, 2, 1260, 1, 0>>,
     <<3000, 0, 1, 2, 1260, 1, 11000>>, <<3000, 0, 2, 0, -7200, 0, 0>>,
     <<3000, 0, 2, 0, -7200, 1, 0>>, <<3000, 0, 2, 0, 1680, 0, 11000>>,
     <<3000, 0, 2, 0, 2800, 0, 0>>, <<3000, 0, 2, 0, 2800, 0, 11000>>,
     <<3000, 0, 2, 0, 2800, 1, 11000>>, <<3000, 0, 2, 2, 0, 0, 11000>>,
     <<3000, 0, 2, 2, 1260, 0, 0>>, <<3000, 1, 0, 0, -11680, 0, 0>>,
     <<3000, 1, 1, 2, 1260, 0, 11000>>, <<3000, 1, 1, 2, 1260, 1, 11000>>,
     <<10000, 0, 0, 0, -11680, 0, 11000>>, <<10000, 0, 0, 0, -11680, 1, 0>>,
     <<10000, 0, 0, 0, -11680, 1, 11000>>, <<10000, 0, 0, 0, -8300, 0, 0>>,
     <<10000, 0, 0, 0, -7000, 0, 0>>, <<10000, 0, 0, 0, -5056, 1, 11000>>,
     <<10000, 0, 0, 0, -2007, 0, 11000>>, <<10000, 0, 0, 0, -2007, 1, 0>>,
     <<10000, 0, 0, 0, 700, 2, 0>>, <<10000, 0, 0, 0, 2800, 1, 0>>,
     <<10000, 0, 0, 0, 7200, 0, 11000>>, <<10000, 0, 0, 0, 7200, 1, 11000>>,
     <<10000, 0, 0, 0, 12000, 0, 11000>>, <<10000, 0, 0, 0, 12000, 1, 11000>>,
     <<10000, 0, 0, 0, 12000, 2, 11000>>, <<10000, 0, 0, 1, -7200, 0, 0>>,
     <<10000, 0, 0, 1, -5056, 1, 0>>, <<10000, 0, 0, 1, 1260, 1, 11000>>,
     <<10000, 0, 0, 1, 7200, 0, 0>>, <<10000, 0, 0, 1, 7200, 0, 11000>>,
     <<10000, 0, 0, 1, 7200, 1, 0>>, <<10000, 0, 1, 0, -7200, 0, 0>>,
     <<10000, 0, 1, 0, -5056, 1, 0>>, <<10000, 0, 1, 0, -4433, 0, 11000>>,
     <<10000, 0, 1, 0, -2007, 0, 11000>>, <<10000, 0, 1, 0, -2007, 1, 11000>>,
     <<10000, 0, 1, 0, 1260, 1, 11000>>, <<10000, 0, 1, 0, 1680, 0, 0>>,
     <<10000, 0, 1, 0, 1680, 0, 11000>>, <<10000, 0, 1, 0, 1680, 1, 0>>,
     <<10000, 0, 1, 0, 6000, 0, 11000>>, <<10000, 0, 1, 0, 6000, 1, 11000>>,
     <<10000, 0, 1, 0, 6000, 2, 11000>>, <<10000, 0, 1, 0, 7200, 0, 0>>,
     <<10000, 0, 1, 0, 7200, 1, 0>>, <<10000, 0, 1, 1, -4433, 0, 0>>,
     <<10000, 0, 1, 1, -4433, 1, 0>>, <<10000, 0, 1, 1, -1400, 1, 0>>,
     <<10000, 0, 1, 1, 0, 0, 11000>>, <<10000, 0, 1, 1, 0, 1, 11000>>,
     <<10000, 0, 1, 1, 2800, 0, 0>>, <<10000, 0, 2, 0, -2007, 0, 0>>,
     <<10000, 0, 2, 0, -1400, 1, 0>>, <<10000, 0, 2, 0, 0, 0, 11000>>,
     <<10000, 0, 2, 0, 0, 1, 11000>>, <<10000, 0, 2, 0, 2800, 0, 0>>,
     <<10000, 1, 0, 0, 7200, 1, 11000>>, <<10000, 1, 0, 1, 2100, 0, 11000>>,
     <<10000, 1, 0, 1, 2100, 1, 11000>>, <<10000, 1, 0, 1, 2800, 0, 0>>,
     <<10000, 1, 0, 1, 2800, 0, 11000>>, <<10000, 1, 0, 1, 2800, 1, 11000>>,
     <<10000, 1, 1, 0, -7200, 0, 0>>, <<10000, 1, 1, 0, -7200, 1, 0>>,
     <<10000, 1, 1, 0, 2100, 0, 11000>>, <<10000, 1, 1, 0, 2100, 1, 11000>>,
     <<10000, 1, 1, 0, 2800, 0, 0>>, <<10000, 1, 1, 0, 2800, 0, 11000>>,
     <<10000, 1, 1, 0, 2800, 1, 11000>>, <<10000, 1, 1, 1, 1260, 0, 11000>>,
     <<10000, 1, 1, 1, 1260, 1, 11000>>, <<10000, 1, 2, 0, 1260, 0, 11000>>,
     <<10000, 1, 2, 0, 1260, 1, 11000>>, <<20000, 0, 0, 0, -11680, 0, 0>>,
     <<20000, 0, 0, 0, -11680, 0, 11000>>, <<20000, 0, 0, 0, -7200, 1, 0>>,
     <<20000, 0, 0, 0, -5056, 0, 11000>>, <<20000, 0, 0, 0, -2007, 0, 0>>,
     <<20000, 0, 0, 0, 1600, 0, 11000>>, <<20000, 0, 0, 0, 1680, 1, 11000>>,
     <<20000, 0, 0, 0, 2100, 1, 11000>>, <<20000, 0, 0, 0, 2800, 0, 0>>,
     <<20000, 0, 0, 0, 2800, 0, 11000>>, <<20000, 0, 0, 0, 2800, 1, 0>>,
     <<20000, 0, 0, 0, 2800, 1, 11000>>, <<20000, 0, 0, 0, 2800, 2, 0>>,
     <<20000, 0, 0, 0, 2800, 2, 11000>>, <<20000, 0, 0, 0, 12000, 0, 11000>>,
     <<20000, 0, 0, 0, 12000, 1, 11000>>, <<20000, 0, 0, 1, -5056, 0, 0>>,
     <<20000, 0, 0, 1, 1260, 0, 11000>>, <<20000, 0, 0, 1, 7200, 0, 0>>,
     <<20000, 0, 1, 0, -5056, 0, 0>>, <<20000, 0, 1, 0, 1260, 0, 11000>>,
     <<20000, 0, 1, 0, 1680, 0, 0>>, <<20000, 0, 1, 0, 6000, 0, 11000>>,
     <<20000, 0, 1, 0, 6000, 1, 11000>>, <<20000, 0, 2, 0, -1400, 0, 0>>,
     <<20000, 0, 2, 0, -1400, 1, 0>>, <<20000, 0, 2, 0, 0, 0, 11000>>,
     <<20000, 0, 2, 0, 0, 1, 11000>>, <<20000, 1, 0, 0, 7200, 0, 11000>>,
     <<20000, 1, 0, 0, 7200, 1, 11000>>}

\* one ulp below
SumsBelow ==
    {<<0, 0, 0, 0, -16000, 1, 0>>, <<0, 1, 0, 0, -8300, 0, 0>>, <<0, 1, 0, 0, -8300, 1, 0>>,
     <<0, 1, 0, 0, -7200, 0, 0>>, <<0, 1, 0, 0, -7000, 0, 0>>, <<0, 1, 0, 0, -5056, 0, 0>>,
     <<0, 1, 0, 0, -5056, 1, 0>>, <<0, 1, 0, 0, -4433, 0, 0>>, <<0, 1, 0, 0, -4433, 1, 0>>,
     <<0, 1, 0, 0, -1400, 0, 0>>, <<0, 1, 0, 0, -1400, 1, 0>>, <<0, 1, 0, 0, 1260, 0, 0>>,
     <<0, 1, 0, 0, 2100, 0, 0>>, <<0, 1, 0, 0, 2800, 1, 0>>, <<0, 1, 0, 0, 4200, 0, 0>>,
     <<0, 1, 0, 0, 7200, 0, 0>>, <<0, 1, 0, 0, 7200, 0, 11000>>, <<0, 1, 0, 0, 7200, 1, 11000>>,
     <<0, 1, 0, 0, 12000, 0, 0>>, <<0, 1, 0, 0, 12000, 0, 11000>>, <<0, 1, 0, 0, 12000, 1, 0>>,
     <<0, 1, 0, 0, 12000, 1, 11000>>, <<3000, 0, 0, 0, -8300, 1, 0>>,
     <<3000, 0, 0, 0, -4433, 0, 0>>, <<3000, 0, 0, 0, -1400, 0, 0>>,
     <<3000, 0, 0, 0, -1400, 1, 0>>, <<3000, 0, 0, 0, 560, 1, 0>>, <<3000, 0, 0, 0, 1600, 0, 0>>,
     <<3000, 0, 1, 1, -5056, 0, 0>>, <<3000, 0, 1, 1, -5056, 1, 0>>, <<3000, 0, 1, 1, 7200, 0, 0>>,
     <<3000, 0, 2, 0, -5056, 0, 0>>, <<3000, 0, 2, 0, -5056, 1, 0>>, <<3000, 0, 2, 0, 7200, 0, 0>>,
     <<3000, 1, 0, 0, -16000, 1, 0>>, <<3000, 1, 0, 0, 4200, 0, 0>>,
     <<3000, 1, 0, 0, 4200, 0, 11000>>, <<3000, 1, 0, 0, 4200, 1, 11000>>,
     <<3000, 1, 1, 0, -5056, 0, 0>>, <<3000, 1, 1, 0, -5056, 1, 0>>, <<3000, 1, 1, 0, 1260, 0, 0>>,
     <<3000, 1, 1, 0, 1260, 1, 0>>, <<3000, 1, 1, 0, 7200, 0, 0>>,
     <<3000, 1, 1, 0, 7200, 0, 11000>>, <<3000, 1, 1, 0, 7200, 1, 11000>>,
     <<10000, 0, 0, 0, -16000, 0, 0>>, <<10000, 0, 0, 0, -16000, 2, 0>>,
     <<10000, 0, 0, 0, -5056, 0, 0>>, <<10000, 0, 0, 0, -1400, 1, 0>>,
     <<10000, 0, 0, 0, 7200, 1, 0>>, <<10000, 0, 0, 0, 7200, 2, 0>>,
     <<10000, 1, 0, 0, -16000, 1, 0>>, <<10000, 1, 0, 0, -8300, 0, 0>>,
     <<10000, 1, 0, 0, -7200, 1, 0>>, <<10000, 1, 0, 0, -5056, 0, 0>>,
     <<10000, 1, 0, 0, -4433, 0, 0>>, <<10000, 1, 0, 0, -4433, 1, 0>>,
     <<10000, 1, 0, 0, -4433, 2, 0>>, <<10000, 1, 0, 0, 700, 0, 0>>, <<10000, 1, 0, 0, 700, 1, 0>>,
     <<10000, 1, 0, 0, 1260, 1, 11000>>, <<10000, 1, 0, 0, 2800, 0, 0>>,
     <<10000, 1, 0, 0, 2800, 1, 0>>, <<10000, 1, 0, 0, 2800, 1, 11000>>,
     <<10000, 1, 0, 0, 2800, 2, 0>>, <<10000, 1, 0, 0, 2800, 2, 11000>>,
     <<10000, 1, 0, 0, 12000, 0, 0>>, <<10000, 1, 0, 0, 12000, 0, 11000>>,
     <<10000, 1, 0, 0, 12000, 1, 11000>>, <<10000, 1, 1, 0, -5056, 0, 0>>,
     <<10000, 1, 1, 0, -5056, 1, 0>>, <<10000, 1, 1, 0, -1400, 1, 0>>,
     <<10000, 1, 1, 0, 1260, 1, 0>>, <<10000, 1, 1, 1, -5056, 0, 0>>,
     <<10000, 1, 1, 1, -5056, 1, 0>>, <<10000, 1, 1, 1, 0, 0, 11000>>,
     <<10000, 1, 1, 1, 0, 1, 11000>>, <<10000, 1, 1, 1, 7200, 0, 0>>,
     <<10000, 1, 1, 1, 7200, 1, 0>>, <<10000, 1, 2, 0, -5056, 0, 0>>,
     <<10000, 1, 2, 0, -5056, 1, 0>>, <<10000, 1, 2, 0, 0, 0, 11000>>,
     <<10000, 1, 2, 0, 0, 1, 11000>>, <<10000, 1, 2, 0, 7200, 0, 0>>,
     <<10000, 1, 2, 0, 7200, 1, 0>>, <<20000, 0, 0, 0, -5056, 1, 0>>,
     <<20000, 0, 0, 0, -1400, 0, 0>>, <<20000, 0, 0, 0, 7200, 0, 0>>,
     <<20000, 0, 0, 0, 7200, 1, 0>>, <<20000, 1, 0, 0, -16000, 0, 0>>,
     <<20000, 1, 0, 0, -7200, 0, 0>>, <<20000, 1, 0, 0, -7200, 1, 0>>,
     <<20000, 1, 0, 0, -4433, 0, 0>>, <<20000, 1, 0, 0, -4433, 1, 0>>,
     <<20000, 1, 0, 0, 700, 0, 0>>, <<20000, 1, 0, 0, 700, 1, 0>>,
     <<20000, 1, 0, 0, 1260, 0, 11000>>, <<20000, 1, 0, 0, 1260, 1, 11000>>,
     <<20000, 1, 0, 0, 2100, 1, 0>>, <<20000, 1, 0, 0, 2800, 0, 0>>,
     <<20000, 1, 0, 0, 2800, 0, 11000>>, <<20000, 1, 0, 0, 2800, 1, 11000>>,
     <<20000, 1, 0, 0, 12000, 0, 11000>>, <<20000, 1, 0, 0, 12000, 1, 11000>>,
     <<20000, 1, 1, 1, 0, 0, 11000>>, <<20000, 1, 1, 1, 0, 0, 16000>>,
     <<20000, 1, 1, 1, 0, 1, 11000>>, <<20000, 1, 1, 1, 0, 1, 16000>>}

\* further away
SumsFar ==
    (<<0, 0, 0, 0, -11680, 0, 11000>> :> 12)
    @@ (<<0, 0, 0, 0, -8300, 0, 11000>> :> 2)
    @@ (<<0, 0, 0, 0, -8300, 1, 0>> :> 3)
    @@ (<<0, 0, 0, 0, -7200, 1, 0>> :> 8)
    @@ (<<0, 0, 0, 0, -7000, 1, 0>> :> 6)
    @@ (<<0, 0, 0, 0, -5056, 1, 0>> :> -2)
    @@ (<<0, 0, 0, 1, -7200, 0, 0>> :> 2)
    @@ (<<0, 1, 0, 0, -16000, 0, 0>> :> -3)
    @@ (<<0, 1, 0, 0, -16000, 1, 0>> :> -3)
    @@ (<<0, 1, 0, 0, -11680, 0, 0>> :> -5)
    @@ (<<3000, 0, 0, 0, -16000, 2, 0>> :> -2)
    @@ (<<3000, 0, 0, 0, -11680, 0, 11000>> :> 7)
    @@ (<<3000, 0, 0, 0, -11680, 1, 0>> :> 8)
    @@ (<<3000, 0, 0, 0, -11680, 1, 11000>> :> 2)
    @@ (<<3000, 0, 1, 2, -7200, 0, 0>> :> 2)
    @@ (<<3000, 0, 1, 2, -7200, 1, 0>> :> 2)
    @@ (<<3000, 1, 0, 0, -16000, 0, 0>> :> -5)
    @@ (<<10000, 0, 0, 0, -16000, 1, 0>> :> -3)
    @@ (<<10000, 0, 0, 0, -11680, 0, 0>> :> 3)
    @@ (<<10000, 1, 0, 0, -16000, 0, 0>> :> -2)
    @@ (<<20000, 0, 0, 0, -16000, 0, 0>> :> -2)

ScoreUlps(stageScore, inputCount, outputCount, capabilityCount, bias, flowCount, edgeBonus) ==
    CASE <<stageScore, inputCount, outputCount, capabilityCount, bias, flowCount, edgeBonus>> \in SumsNearest -> 0
      [] <<stageScore, inputCount, outputCount, capabilityCount, bias, flowCount, edgeBonus>> \in SumsAbove -> 1
      [] <<stageScore, inputCount, outputCount, capabilityCount, bias, flowCount, edgeBonus>> \in SumsBelow -> -1
      [] <<stageScore, inputCount, outputCount, capabilityCount, bias, flowCount, edgeBonus>> \in DOMAIN SumsFar ->
             SumsFar[<<stageScore, inputCount, outputCount, capabilityCount, bias, flowCount, edgeBonus>>]

\* a score with the mean of the match weights in place of their sum
weightedScoreAveraged(stageScore, inputCount, outputCount, capabilityCount, bias, graphBoost) ==
    stageScore
        + (IF inputCount + outputCount + capabilityCount = 0 THEN 0
           ELSE (inputCount * 11500 + outputCount * 13500 + capabilityCount * 11000)
                    \div (inputCount + outputCount + capabilityCount))
        + bias + graphBoost

\* the sum evaluateCandidate accumulates in score, in units of 10^-4
weightedScore(stageScore, inputCount, outputCount, capabilityCount, bias, graphBoost) ==
    stageScore + inputCount * 11500 + outputCount * 13500 + capabilityCount * 11000 + bias + graphBoost

\* the body of evaluateCandidate once the matches, the boost and the bias are known
evaluationOf(step, skill, inputMatches, outputMatches, capabilityMatches, flowOverlap, edgeBonus, feedback) ==
    LET graphBoost == Len(flowOverlap) * 7500 + edgeBonus
        exact == weightedScore(scoreStage(step.stage, skill.stage), Len(inputMatches), Len(outputMatches),
                               Len(capabilityMatches), feedback.bias, graphBoost)
        requiredTags == normalizeTags(normalizeTags(step.inputsTags) \o normalizeTags(step.outputsTags)
                                          \o normalizeTags(step.capabilitiesTags))
        coveredTags == normalizeTags(inputMatches \o outputMatches \o capabilityMatches)
        reasoningParts ==
            (IF scoreStage(step.stage, skill.stage) > 0 THEN <<<<"stage", step.stage, skill.stage>>>> ELSE <<>>)
            \o (IF Len(inputMatches) > 0 THEN <<<<"inputs", inputMatches>>>> ELSE <<>>)
            \o (IF Len(outputMatches) > 0 THEN <<<<"outputs", outputMatches>>>> ELSE <<>>)
            \o (IF Len(capabilityMatches) > 0 THEN <<<<"capabilities", capabilityMatches>>>> ELSE <<>>)
            \o (IF Len(flowOverlap) > 0 THEN <<<<"prev artifacts->inputs", flowOverlap>>>> ELSE <<>>)
            \o (IF edgeBonus = 16000 THEN <<<<"graph depends_on">>>>
                ELSE IF edgeBonus = 11000 THEN <<<<"graph precedes">>>> ELSE <<>>)
            \o (IF feedback.bias # 0
                THEN <<<<"feedback", RoundFraction(feedback.bias, 100), feedback.votes>>>> ELSE <<>>)
    IN  [candidate |-> [skillId |-> skill.id,
                        stage |-> skill.stage,
                        \* Number(score.toFixed(4))
                        score |-> exact,
                        matchedTags |-> coveredTags,
                        reasoning |-> IF Len(reasoningParts) > 0 THEN reasoningParts
                                      ELSE <<<<"low tag overlap">>>>],
         score |-> [exact |-> exact,
                    ulps |-> ScoreUlps(scoreStage(step.stage, skill.stage), Len(inputMatches),
                                       Len(outputMatches), Len(capabilityMatches), feedback.bias,
                                       Len(flowOverlap), edgeBonus)],
         matchedTags |-> coveredTags,
         missingTags |-> SelectSeq(requiredTags, LAMBDA tag : ~Includes(coveredTags, tag)),
         graphBoost |-> graphBoost]

\* edgeBonusOf testing precedes before depends_on
edgeBonusPrecedesFirst(priorEdgeTypes) ==
    IF "precedes" \in priorEdgeTypes THEN 11000
    ELSE IF "depends_on" \in priorEdgeTypes THEN 16000
    ELSE 0

\* the bonus of the edges previousSelected -> skill
edgeBonusOf(priorEdgeTypes) ==
    IF "depends_on" \in priorEdgeTypes THEN 16000
    ELSE IF "precedes" \in priorEdgeTypes THEN 11000
    ELSE 0

evaluateCandidate(step, skill, previousSelected, edgeLookup, feedbackEntries) ==
    evaluationOf(step, skill,
        intersectTags(normalizeTags(step.inputsTags),
                      normalizeTags(skill.inputsTags) \o normalizeTags(skill.capabilitiesTags)),
        intersectTags(normalizeTags(step.outputsTags), normalizeTags(skill.artifactsTags)),
        intersectTags(normalizeTags(step.capabilitiesTags), normalizeTags(skill.capabilitiesTags)),
        IF previousSelected = <<>> THEN <<>>
        ELSE intersectTags(previousSelected[1].artifactsTags, normalizeTags(skill.inputsTags)),
        IF previousSelected # <<>> /\ <<previousSelected[1].id, skill.id>> \in DOMAIN edgeLookup
        THEN edgeBonusOf(edgeLookup[<<previousSelected[1].id, skill.id>>])
        ELSE 0,
        feedbackBiasForCandidate(step, skill, feedbackEntries))

\* Array.prototype.slice(0, end)
sliceTo(s, end) ==
    IF end >= 0 THEN SubSeq(s, 1, IF end < Len(s) THEN end ELSE Len(s))
    ELSE SubSeq(s, 1, IF Len(s) + end > 0 THEN Len(s) + end ELSE 0)

\* new Map(entries).get(id): the last element with the id, or none
lastWithId(s, IdOf(_), id) ==
    IF \E i \in DOMAIN s : IdOf(s[i]) = id
    THEN <<s[CHOOSE i \in DOMAIN s : IdOf(s[i]) = id /\ \A j \in DOMAIN s : IdOf(s[j]) = id => j <= i]>>
    ELSE <<>>

\* Array.prototype.sort() of strings, for the tags of the model
TagOrder == <<"code", "llm", "rag", "spec", "tests", "workflow">>

\* the tags in the order they were collected
collectedTags(tags) == tags

sortTags(tags) == SelectSeq(TagOrder, LAMBDA tag : Includes(tags, tag))

\* an entry selectable by its score alone
isSelectableByScore(entry) == ScoreAtLeast(entry.score, Literal(MIN_SELECTABLE_SCORE))

\* an entry is selectable
isSelectable(entry) ==
    /\ ScoreAtLeast(entry.score, Literal(MIN_SELECTABLE_SCORE))
    /\ (Len(entry.matchedTags) > 0 \/ entry.graphBoost > 0)

\* the loop body with the previous selection kept over a step without a winner
stepOfWinnerKeepingPrevious(step, stepId, lockedEvaluation, winner, others, alternativesLimit, skills, acc) ==
    LET winnerCandidate ==
            IF winner = <<>> THEN <<>>
            ELSE <<[winner[1].candidate EXCEPT
                       !.reasoning = IF lockedEvaluation # <<>> THEN <<<<"locked selection">>>> \o @ ELSE @]>>
        stepAlternatives ==
            [k \in DOMAIN sliceTo(others, alternativesLimit) |-> sliceTo(others, alternativesLimit)[k].candidate]
        missingTags ==
            IF winner # <<>> THEN winner[1].missingTags
            ELSE normalizeTags(step.inputsTags \o step.outputsTags \o step.capabilitiesTags)
    IN  [selected |-> acc.selected \o winnerCandidate,
         alternatives |-> (stepId :> stepAlternatives) @@ acc.alternatives,
         reasoning |->
             (stepId :> (IF winner # <<>> THEN winnerCandidate[1].reasoning
                         ELSE <<<<"No candidate met minimum score/overlap constraints">>>>))
                 @@ acc.reasoning,
         missingGlobal |-> Dedupe(acc.missingGlobal \o missingTags),
         previousSelected |->
             IF winner # <<>> THEN lastWithId(skills, LAMBDA skill : skill.id, winner[1].candidate.skillId)
             ELSE acc.previousSelected,
         steps |-> Append(acc.steps,
                      [stepId |-> stepId,
                       stage |-> step.stage,
                       selected |-> winnerCandidate,
                       alternatives |-> stepAlternatives,
                       overlapTags |-> IF winner # <<>> THEN winner[1].matchedTags ELSE <<>>,
                       missingCapabilities |-> missingTags,
                       locked |-> (winner # <<>> /\ lockedEvaluation # <<>>)])]

\* the body of the loop of assembleWorkflow from the winner on
stepOfWinner(step, stepId, lockedEvaluation, winner, others, alternativesLimit, skills, acc) ==
    LET winnerCandidate ==
            IF winner = <<>> THEN <<>>
            ELSE <<[winner[1].candidate EXCEPT
                       !.reasoning = IF lockedEvaluation # <<>> THEN <<<<"locked selection">>>> \o @ ELSE @]>>
        stepAlternatives ==
            [k \in DOMAIN sliceTo(others, alternativesLimit) |-> sliceTo(others, alternativesLimit)[k].candidate]
        missingTags ==
            IF winner # <<>> THEN winner[1].missingTags
            ELSE normalizeTags(step.inputsTags \o step.outputsTags \o step.capabilitiesTags)
    IN  [selected |-> acc.selected \o winnerCandidate,
         alternatives |-> (stepId :> stepAlternatives) @@ acc.alternatives,
         reasoning |->
             (stepId :> (IF winner # <<>> THEN winnerCandidate[1].reasoning
                         ELSE <<<<"No candidate met minimum score/overlap constraints">>>>))
                 @@ acc.reasoning,
         missingGlobal |-> Dedupe(acc.missingGlobal \o missingTags),
         previousSelected |->
             IF winner # <<>> THEN lastWithId(skills, LAMBDA skill : skill.id, winner[1].candidate.skillId)
             ELSE <<>>,
         steps |-> Append(acc.steps,
                      [stepId |-> stepId,
                       stage |-> step.stage,
                       selected |-> winnerCandidate,
                       alternatives |-> stepAlternatives,
                       overlapTags |-> IF winner # <<>> THEN winner[1].matchedTags ELSE <<>>,
                       missingCapabilities |-> missingTags,
                       locked |-> (winner # <<>> /\ lockedEvaluation # <<>>)])]

\* a winner taken from the end of the selectable entries
winnerOfLast(lockedEvaluation, selectable) ==
    IF lockedEvaluation # <<>> THEN lockedEvaluation
    ELSE IF Len(selectable) > 0 THEN <<selectable[Len(selectable)]>>
    ELSE <<>>

\* the winner of a step
winnerOf(lockedEvaluation, selectable) ==
    IF lockedEvaluation # <<>> THEN lockedEvaluation
    ELSE IF Len(selectable) > 0 THEN <<selectable[1]>>
    ELSE <<>>

\* the selectable entries with the winner left in
withWinner(selectable, winner) == selectable

\* selectable.filter(entry => entry.candidate.skillId !== winnerCandidate?.skillId)
otherThan(selectable, winner) ==
    SelectSeq(selectable, LAMBDA entry : winner = <<>> \/ entry.candidate.skillId # winner[1].candidate.skillId)

\* the body of the loop of assembleWorkflow from the selectable entries on
stepOfSelectable(step, stepId, lockedEvaluation, selectable, alternativesLimit, skills, acc) ==
    stepOfWinner(step, stepId, lockedEvaluation, winnerOf(lockedEvaluation, selectable),
                 otherThan(selectable, winnerOf(lockedEvaluation, selectable)),
                 alternativesLimit, skills, acc)

\* a lock honoured only where the locked entry is selectable
stepOfEvaluationsSelectableLock(step, stepId, lockedSkillId, evaluations, alternativesLimit, skills, acc) ==
    stepOfSelectable(step, stepId,
        IF lockedSkillId = 0 THEN <<>>
        ELSE lastWithId(SelectSeq(evaluations, isSelectable), LAMBDA entry : entry.candidate.skillId, lockedSkillId),
        SelectSeq(evaluations, isSelectable),
        alternativesLimit, skills, acc)

\* the body of the loop of assembleWorkflow from the sorted evaluations on;
\* lockedSkillId = 0 is null
stepOfEvaluations(step, stepId, lockedSkillId, evaluations, alternativesLimit, skills, acc) ==
    stepOfSelectable(step, stepId,
        IF lockedSkillId = 0 THEN <<>>
        ELSE lastWithId(evaluations, LAMBDA entry : entry.candidate.skillId, lockedSkillId),
        SelectSeq(evaluations, isSelectable),
        alternativesLimit, skills, acc)

\* skills.map(evaluateCandidate).sort(score descending, then skillId ascending)
evaluationsOf(step, skills, previousSelected, edgeLookup, feedbackEntries) ==
    StableSort([i \in DOMAIN skills |->
                   evaluateCandidate(step, skills[i], previousSelected, edgeLookup, feedbackEntries)],
               LAMBDA a, b : \/ (a.score # b.score /\ ScoreAtLeast(a.score, b.score))
                             \/ (a.score = b.score /\ a.candidate.skillId < b.candidate.skillId))

\* step.id || `step-${index + 1}`, with index + 1 for the position
stepIdOf(step, position) == IF step.id # 0 THEN step.id ELSE position

\* options.lockedSkillByStepId?.[stepId] || null
lockedSkillIdOf(options, stepId) ==
    IF stepId \in DOMAIN options.lockedSkillByStepId THEN options.lockedSkillByStepId[stepId] ELSE 0

\* one iteration of the loop of assembleWorkflow
assembleStep(step, position, skills, edgeLookup, options, acc) ==
    stepOfEvaluations(step, stepIdOf(step, position),
        lockedSkillIdOf(options, stepIdOf(step, position)),
        evaluationsOf(step, skills, acc.previousSelected, edgeLookup, options.feedbackEntries),
        options.alternativesLimit, skills, acc)

RECURSIVE assembleLoop(_, _, _, _, _, _)
assembleLoop(plan, skills, edgeLookup, options, position, acc) ==
    IF position > Len(plan.steps) THEN acc
    ELSE assembleLoop(plan, skills, edgeLookup, options, position + 1,
                      assembleStep(plan.steps[position], position, skills, edgeLookup, options, acc))

\* options.graph === null ? emptyGraph() : options.graph ?? buildSkillGraph(skills)
graphEdgesOf(options, skills) ==
    IF options.graph.kind = "null" THEN emptyGraph
    ELSE IF options.graph.kind = "undefined" THEN buildSkillGraph(skills, FALSE).edges
    ELSE options.graph.edges

\* the object assembleWorkflow returns
assemblyOf(done) ==
    [selected |-> done.selected,
     alternatives |-> done.alternatives,
     reasoning |-> done.reasoning,
     missingCapabilities |-> sortTags(done.missingGlobal),
     steps |-> done.steps]

\* options.alternativesLimit is MAX_ALTERNATIVES where the caller leaves it out
assembleWorkflow(plan, skills, options) ==
    assemblyOf(assembleLoop(plan, skills, buildEdgeLookup(graphEdgesOf(options, skills)), options, 1,
                   [selected |-> <<>>, alternatives |-> <<>>, reasoning |-> <<>>, missingGlobal |-> <<>>,
                    previousSelected |-> <<>>, steps |-> <<>>]))

(***************************************************************************)
(* Plans, catalogs and options the assembler is run on                     *)
(***************************************************************************)
\* a WorkflowPlanStep (types.ts); id 0 is the absent id, id k is `step-k`
WorkflowPlanStep(id, stage, inputsTags, outputsTags, capabilitiesTags) ==
    [id |-> id, stage |-> stage, inputsTags |-> inputsTags,
     outputsTags |-> outputsTags, capabilitiesTags |-> capabilitiesTags]

\* a WorkflowFeedbackRecord (types.ts), the fields feedbackBiasForCandidate reads
WorkflowFeedbackRecord(skillId, stepStage, expectedTags, rating, candidateType) ==
    [skillId |-> skillId, stepStage |-> stepStage, expectedTags |-> expectedTags,
     rating |-> rating, candidateType |-> candidateType]

\* longest plan
MaxSteps == 3

\* largest catalog passed to the assembler
MaxEntries == 3

\* the i-th element of a sequence read round and round
Cyclic(s, i) == s[((i - 1) % Len(s)) + 1]

\* step profiles: raw tags in need of normalizing, a blank tag, steps asking for
\* what no entry has, steps asking for several tags
StepCycle ==
    <<WorkflowPlanStep(0, "plan", <<"spec">>, <<>>, <<>>),
      WorkflowPlanStep(0, "implement", <<>>, <<"Code", " tests ">>, <<"  ">>),
      WorkflowPlanStep(0, "verify", <<"spec">>, <<>>, <<>>),
      WorkflowPlanStep(0, "plan", <<"spec">>, <<"code", "tests">>, <<"rag", "llm">>),
      WorkflowPlanStep(0, "verify", <<"code">>, <<"tests">>, <<"tests">>)>>

\* entry profiles
EntryCycle ==
    <<SkillRecord(0, "plan", <<>>, <<"spec">>, <<>>),
      SkillRecord(0, "verify", <<"code">>, <<"tests">>, <<"tests">>),
      SkillRecord(0, "verify", <<>>, <<"code">>, <<"rag", "llm">>),
      SkillRecord(0, "refactor", <<"spec">>, <<"code", "tests">>, <<>>),
      SkillRecord(0, "implement", <<"spec">>, <<"code">>, <<>>),
      SkillRecord(0, "implement", <<"Code">>, <<>>, <<>>),
      SkillRecord(0, "other", <<>>, <<>>, <<>>)>>

\* stretches of StepCycle; the first step has no id or the id `step-2`, which is
\* also the default id of the second step
Plans ==
    {[steps |-> [k \in 1..n |-> [Cyclic(StepCycle, start + k - 1) EXCEPT
                                    !.id = IF k = 1 THEN firstId ELSE 0]]] :
        start \in 1..Len(StepCycle), n \in 1..MaxSteps, firstId \in {0, 2}}

\* stretches of EntryCycle with the ids 1..n, ascending or descending
AssemblerCatalogs ==
    {[k \in 1..n |-> [Cyclic(EntryCycle, start + k - 1) EXCEPT
                         !.id = IF descending THEN n + 1 - k ELSE k]] :
        start \in 1..Len(EntryCycle), n \in 0..MaxEntries, descending \in BOOLEAN}

\* a SkillGraphEdge (types.ts), the fields buildEdgeLookup reads
GraphEdge(from, to, type) == [from |-> from, to |-> to, type |-> type]

\* options.graph: null, left out, or a graph with the edges given
NullGraph == [kind |-> "null", edges |-> <<>>]

UndefinedGraph == [kind |-> "undefined", edges |-> <<>>]

SuppliedGraph(edges) == [kind |-> "graph", edges |-> edges]

SuppliedGraphs ==
    <<SuppliedGraph(<<GraphEdge(1, 2, "depends_on")>>),
      SuppliedGraph(<<GraphEdge(1, 2, "precedes"), GraphEdge(2, 3, "precedes")>>),
      SuppliedGraph(<<GraphEdge(1, 2, "precedes"), GraphEdge(1, 2, "depends_on"), GraphEdge(3, 1, "precedes")>>),
      SuppliedGraph(<<GraphEdge(2, 1, "depends_on"), GraphEdge(1, 2, "complements"),
                      GraphEdge(1, 3, "alternative_to")>>)>>

\* options.lockedSkillByStepId: step id -> skill id; no entry of a catalog has the id 9
NoLocks == <<>>

Locks == <<(1 :> 1), (2 :> 3), (1 :> 9), (2 :> 9)>>

\* options.feedbackEntries
FeedbackLists ==
    <<<<WorkflowFeedbackRecord(1, "implement", <<"code">>, 1, "selected")>>,
      <<WorkflowFeedbackRecord(2, "verify", <<"spec", "code">>, -1, "alternative"),
        WorkflowFeedbackRecord(2, "plan", <<"spec">>, -1, "selected"),
        WorkflowFeedbackRecord(3, "verify", <<"tests">>, 1, "alternative")>>,
      <<WorkflowFeedbackRecord(1, "plan", <<"spec">>, 1, "selected"),
        WorkflowFeedbackRecord(1, "plan", <<" tests ">>, 1, "selected"),
        WorkflowFeedbackRecord(2, "plan", <<"spec">>, -1, "selected"),
        WorkflowFeedbackRecord(2, "plan", <<"spec">>, -1, "selected")>>>>

\* the options object, alternativesLimit defaulted
AssemblerGraphOptions(graph, lockedSkillByStepId, feedbackEntries, alternativesLimit) ==
    [graph |-> graph, lockedSkillByStepId |-> lockedSkillByStepId,
     feedbackEntries |-> feedbackEntries, alternativesLimit |-> alternativesLimit]

AssemblerOptions ==
    {AssemblerGraphOptions(g, NoLocks, <<>>, MAX_ALTERNATIVES) :
        g \in {NullGraph, UndefinedGraph} \cup SeqToSet(SuppliedGraphs)}
    \cup {AssemblerGraphOptions(NullGraph, l, <<>>, MAX_ALTERNATIVES) : l \in SeqToSet(Locks)}
    \cup {AssemblerGraphOptions(SuppliedGraphs[3], Locks[k], <<>>, MAX_ALTERNATIVES) : k \in 1..2}
    \cup {AssemblerGraphOptions(NullGraph, NoLocks, f, MAX_ALTERNATIVES) : f \in SeqToSet(FeedbackLists)}
    \cup {AssemblerGraphOptions(NullGraph, NoLocks, <<>>, limit) : limit \in 0..1}
    \cup {AssemblerGraphOptions(SuppliedGraphs[2], Locks[1], FeedbackLists[2], 1)}

(***************************************************************************)
(* Entries evaluateCandidate is run on a second time with one more tag     *)
(***************************************************************************)
\* the tags added to an entry, raw
ProbeTags == {"spec", "Code", " tests ", "rag"}

TagFields == {"inputsTags", "artifactsTags", "capabilitiesTags"}

\* the entry with a tag added to one of its tag lists
Enlarged(skill, field, tag) == [skill EXCEPT ![field] = Append(@, tag)]

\* the previous selection: none, or an entry with the id 3
ProbePrevious == {<<>>, <<[EntryCycle[1] EXCEPT !.id = 3]>>, <<[EntryCycle[4] EXCEPT !.id = 3]>>}

\* the edges of the graph: none, or one from the previous selection to the entry 1
ProbeEdges == {<<>>, <<GraphEdge(3, 1, "precedes")>>}

\* a step, an entry, the entry enlarged, and what evaluateCandidate is given besides
Probes ==
    {[step |-> step, skill |-> [entry EXCEPT !.id = id],
      enlarged |-> Enlarged([entry EXCEPT !.id = id], field, tag),
      previousSelected |-> previous, edges |-> edges, feedbackEntries |-> feedbackEntries] :
        step \in SeqToSet(StepCycle), entry \in SeqToSet(EntryCycle), id \in 1..2,
        field \in TagFields, tag \in ProbeTags, previous \in ProbePrevious, edges \in ProbeEdges,
        feedbackEntries \in {<<>>} \cup SeqToSet(FeedbackLists)}

(***************************************************************************)
(* Danger gate of the workflow panel: src/unnamed/part_014                 *)
(*                                                                         *)
(* The panel state is a record: assembly ("null" or "set"), generation     *)
(* (how many assemblies have been set), hasDangerSelection,                *)
(* dangerGateAccepted, pendingDangerExport ("none" for null), and, to state *)
(* the properties, the exports performed, whether Continue was pressed     *)
(* since the assembly was set, and the last handler run.                   *)
(***************************************************************************)
\* most assemblies set in a behaviour
MaxAssemblies == 3

\* most exports recorded in a behaviour
MaxExports == 3

DangerExportActions == {"markdown", "json"}

\* the panel as mounted: no assembly, useState(false), useState(null)
MountedPanel ==
    [assembly |-> "null", generation |-> 0, hasDangerSelection |-> FALSE,
     dangerGateAccepted |-> FALSE, pendingDangerExport |-> "none",
     exports |-> <<>>, confirmedSince |-> FALSE,
     last |-> [handler |-> "mount", exportsBefore |-> 0]]

\* a gate that is open whatever the selection
gateOpenAlways(hasDangerSelection, dangerGateAccepted) == TRUE

\* the condition of withDangerGate under which the callback runs at once
gateOpen(hasDangerSelection, dangerGateAccepted) == ~hasDangerSelection \/ dangerGateAccepted

\* handleExportWorkflowMarkdown / handleExportWorkflowRunJson: nothing without an assembly
exportsAfter(p, action, handler) ==
    IF p.assembly = "null" THEN p.exports
    ELSE Append(p.exports, [action |-> action, handler |-> handler, generation |-> p.generation,
                            danger |-> p.hasDangerSelection, confirmed |-> p.confirmedSince])

\* the effect on [assembly]: setDangerGateAccepted(false); setPendingDangerExport(null)
resetDangerGate(p) ==
    [p EXCEPT !.dangerGateAccepted = FALSE, !.pendingDangerExport = "none", !.confirmedSince = FALSE]

\* setAssembly(workflow) followed by the effect
panelAfterSetAssembly(p, danger) ==
    [resetDangerGate(p) EXCEPT !.assembly = "set", !.generation = p.generation + 1,
                               !.hasDangerSelection = danger,
                               !.last = [handler |-> "setAssembly", exportsBefore |-> Len(p.exports)]]

\* setAssembly(null); the effect runs when the assembly was not null already
panelAfterClearAssembly(p) ==
    [(IF p.assembly = "null" THEN p ELSE resetDangerGate(p)) EXCEPT
        !.assembly = "null", !.hasDangerSelection = FALSE,
        !.last = [handler |-> "clearAssembly", exportsBefore |-> Len(p.exports)]]

\* the skills prop changes: hasDangerSelection is recomputed, no effect runs
panelAfterSkills(p, danger) ==
    [p EXCEPT !.hasDangerSelection = danger,
              !.last = [handler |-> "skills", exportsBefore |-> Len(p.exports)]]

\* withDangerGate(action, callback)
withDangerGate(p, action) ==
    IF gateOpen(p.hasDangerSelection, p.dangerGateAccepted)
    THEN [p EXCEPT !.exports = exportsAfter(p, action, "withDangerGate"),
                   !.last = [handler |-> "withDangerGate", exportsBefore |-> Len(p.exports)]]
    ELSE [p EXCEPT !.pendingDangerExport = action,
                   !.last = [handler |-> "withDangerGate", exportsBefore |-> Len(p.exports)]]

\* handleDangerGateCancel
handleDangerGateCancel(p) ==
    [p EXCEPT !.pendingDangerExport = "none",
              !.last = [handler |-> "handleDangerGateCancel", exportsBefore |-> Len(p.exports)]]

\* handleDangerGateContinue: the confirmation counts from the click on
handleDangerGateContinue(p) ==
    [p EXCEPT !.dangerGateAccepted = TRUE,
              !.confirmedSince = TRUE,
              !.exports = IF p.pendingDangerExport = "none" THEN p.exports
                          ELSE exportsAfter([p EXCEPT !.confirmedSince = TRUE], p.pendingDangerExport,
                                            "handleDangerGateContinue"),
              !.pendingDangerExport = "none",
              !.last = [handler |-> "handleDangerGateContinue", exportsBefore |-> Len(p.exports)]]

(***************************************************************************)
(* State                                                                   *)
(***************************************************************************)
VARIABLES
    phase,      \* graph builder: "catalog", "built", "rebuilt"; normalizer: "raw", "sanitized", "resanitized";
                \* assembler: "planned", "assembled"; evaluateCandidate alone: "probe", "probed";
                \* workflow panel: "panel"
    skills,     \* the entry list passed to buildSkillGraph
    roundsAbove, \* whether the doubles round up when the percentile falls between equal scores
    graph,      \* the SkillGraph it returned
    reordered,  \* the same entries in another order
    regraph,    \* the SkillGraph returned for the reordered list
    fieldArg,   \* the field passed to sanitizeTagField
    rawTagsArg, \* the raw tag list passed to sanitizeTagField
    sanitized,  \* what it returned: [tags, issues]
    resanitized, \* what it returned for the tags of sanitized
    planArg,    \* the plan passed to assembleWorkflow, with skills as its catalog
    optionsArg, \* the options passed to assembleWorkflow
    assembly,   \* the SkillWorkflowAssembly it returned
    probe,      \* what evaluateCandidate is called with, for an entry and the entry enlarged
    probed,     \* the two StepEvaluations it returned: [base, enlarged]
    panel,      \* the workflow panel: its assembly and its danger gate
    directedArg, \* the directed candidates passed to resolveReciprocalDepends, with skills as its catalog
    resolution, \* the ReciprocalResolution it returned
    adjacencyArg, \* the adjacency passed to buildChains: [adjacency, keyOrder]
    chains      \* the chains it returned

vars ==
    <<phase, skills, roundsAbove, graph, reordered, regraph, fieldArg, rawTagsArg, sanitized, resanitized,
      planArg, optionsArg, assembly, probe, probed, panel, directedArg, resolution, adjacencyArg, chains>>

builderStepVars == <<directedArg, resolution, adjacencyArg, chains>>

assemblerVars == <<planArg, optionsArg, assembly, probe, probed, panel>>

graphVars == <<skills, roundsAbove, graph, reordered, regraph>>

normalizerVars == <<fieldArg, rawTagsArg, sanitized, resanitized>>

NoGraph == [edges |-> <<>>]

NoTags == [tags |-> <<>>, issues |-> <<>>]

NoPlan == [steps |-> <<>>]

NoAssembly ==
    [selected |-> <<>>, alternatives |-> <<>>, reasoning |-> <<>>, missingCapabilities |-> <<>>, steps |-> <<>>]

NoProbe == <<>>

NoResolution == [directed |-> <<>>, promotedComplements |-> <<>>, dropReasons |-> NoDrops]

NoAdjacency == [adjacency |-> <<>>, keyOrder |-> <<>>]

\* neither resolveReciprocalDepends nor buildChains has been called on its own
BuilderStepsIdle ==
    /\ directedArg = <<>>
    /\ resolution = NoResolution
    /\ adjacencyArg = NoAdjacency
    /\ chains = <<>>

\* neither assembleWorkflow nor evaluateCandidate has been called
AssemblerIdle ==
    /\ planArg = NoPlan
    /\ optionsArg = AssemblerGraphOptions(NullGraph, NoLocks, <<>>, MAX_ALTERNATIVES)
    /\ assembly = NoAssembly
    /\ probe = NoProbe
    /\ probed = <<>>
    /\ panel = MountedPanel
    /\ BuilderStepsIdle

Init ==
    /\ phase = "catalog"
    /\ skills \in Catalogs
    /\ roundsAbove = FALSE
    /\ graph = NoGraph
    /\ reordered = <<>>
    /\ regraph = NoGraph
    /\ fieldArg = "inputsTags"
    /\ rawTagsArg = <<>>
    /\ sanitized = NoTags
    /\ resanitized = NoTags
    /\ AssemblerIdle

\* the percentile of the catalog's candidate scores falls between two equal scores
tiedCatalog(entries) ==
    LET candidates == candidatesOf(entries)
        scores == SubSeq([i \in DOMAIN candidates |-> candidates[i].score], 1, Len(candidates))
    IN  tiedInterpolation(scores, PERCENTILE_THRESHOLD_TENTHS)

\* buildSkillGraph(skills)
Build ==
    /\ phase = "catalog"
    /\ \E above \in BOOLEAN :
          /\ above => tiedCatalog(skills)
          /\ roundsAbove' = above
          /\ graph' = buildSkillGraph(skills, above)
    /\ phase' = "built"
    /\ UNCHANGED <<skills, reordered, regraph>>
    /\ UNCHANGED normalizerVars
    /\ UNCHANGED assemblerVars
    /\ UNCHANGED builderStepVars

\* a second call of buildSkillGraph, with the same entries in another order
Rebuild ==
    /\ phase = "built"
    /\ \E how \in Reorderings :
          /\ reordered' = Reordered(skills, how)
          /\ regraph' = buildSkillGraph(Reordered(skills, how), roundsAbove)
    /\ phase' = "rebuilt"
    /\ UNCHANGED <<skills, roundsAbove, graph>>
    /\ UNCHANGED normalizerVars
    /\ UNCHANGED assemblerVars
    /\ UNCHANGED builderStepVars

Next == Build \/ Rebuild

Spec == Init /\ [][Next]_vars

ResolveInit ==
    /\ phase = "candidates"
    /\ skills \in ReciprocalCatalogs
    /\ directedArg = <<>>
    /\ resolution = NoResolution
    /\ adjacencyArg = NoAdjacency
    /\ chains = <<>>
    /\ roundsAbove = FALSE
    /\ graph = NoGraph
    /\ reordered = <<>>
    /\ regraph = NoGraph
    /\ fieldArg = "inputsTags"
    /\ rawTagsArg = <<>>
    /\ sanitized = NoTags
    /\ resanitized = NoTags
    /\ planArg = NoPlan
    /\ optionsArg = AssemblerGraphOptions(NullGraph, NoLocks, <<>>, MAX_ALTERNATIVES)
    /\ assembly = NoAssembly
    /\ probe = NoProbe
    /\ probed = <<>>
    /\ panel = MountedPanel

\* resolveReciprocalDepends(directed, skillsById, dropReasons) on the directed candidates
\* of the catalog that pass the threshold, with fresh counters
Resolve ==
    /\ phase = "candidates"
    /\ \E above \in BOOLEAN :
          /\ above => tiedCatalog(skills)
          /\ roundsAbove' = above
          /\ directedArg' = directedOf(collectedOf(skills, computeDf(skills)), above)
    /\ resolution' = resolveReciprocalDepends(directedArg', skills, NoDrops)
    /\ phase' = "resolved"
    /\ UNCHANGED <<skills, graph, reordered, regraph, adjacencyArg, chains>>
    /\ UNCHANGED normalizerVars
    /\ UNCHANGED assemblerVars

ResolveNext == Resolve

ResolveSpec == ResolveInit /\ [][ResolveNext]_vars

ChainsInit ==
    /\ phase = "adjacency"
    /\ adjacencyArg \in Adjacencies
    /\ chains = <<>>
    /\ directedArg = <<>>
    /\ resolution = NoResolution
    /\ skills = <<>>
    /\ roundsAbove = FALSE
    /\ graph = NoGraph
    /\ reordered = <<>>
    /\ regraph = NoGraph
    /\ fieldArg = "inputsTags"
    /\ rawTagsArg = <<>>
    /\ sanitized = NoTags
    /\ resanitized = NoTags
    /\ planArg = NoPlan
    /\ optionsArg = AssemblerGraphOptions(NullGraph, NoLocks, <<>>, MAX_ALTERNATIVES)
    /\ assembly = NoAssembly
    /\ probe = NoProbe
    /\ probed = <<>>
    /\ panel = MountedPanel

\* buildChains(adjacency)
Enumerate ==
    /\ phase = "adjacency"
    /\ chains' = buildChains(adjacencyArg.adjacency, adjacencyArg.keyOrder)
    /\ phase' = "chained"
    /\ UNCHANGED <<adjacencyArg, directedArg, resolution>>
    /\ UNCHANGED graphVars
    /\ UNCHANGED normalizerVars
    /\ UNCHANGED assemblerVars

ChainsNext == Enumerate

ChainsSpec == ChainsInit /\ [][ChainsNext]_vars

NormalizerInit ==
    /\ phase = "raw"
    /\ fieldArg \in MachineFields
    /\ rawTagsArg \in RawLists
    /\ sanitized = NoTags
    /\ resanitized = NoTags
    /\ skills = <<>>
    /\ roundsAbove = FALSE
    /\ graph = NoGraph
    /\ reordered = <<>>
    /\ regraph = NoGraph
    /\ AssemblerIdle

\* sanitizeTagField(rawTags, field)
Sanitize ==
    /\ phase = "raw"
    /\ sanitized' = sanitizeTagField(rawTagsArg, fieldArg)
    /\ phase' = "sanitized"
    /\ UNCHANGED <<fieldArg, rawTagsArg, resanitized>>
    /\ UNCHANGED graphVars
    /\ UNCHANGED assemblerVars
    /\ UNCHANGED builderStepVars

\* sanitizeTagField on the canonical list a previous call returned for the field
Resanitize ==
    /\ phase = "sanitized"
    /\ resanitized' = sanitizeTagField(sanitized.tags, fieldArg)
    /\ phase' = "resanitized"
    /\ UNCHANGED <<fieldArg, rawTagsArg, sanitized>>
    /\ UNCHANGED graphVars
    /\ UNCHANGED assemblerVars
    /\ UNCHANGED builderStepVars

NormalizerNext == Sanitize \/ Resanitize

NormalizerSpec == NormalizerInit /\ [][NormalizerNext]_vars

AssemblerInit ==
    /\ phase = "planned"
    /\ planArg \in Plans
    /\ skills \in AssemblerCatalogs
    /\ optionsArg = AssemblerGraphOptions(NullGraph, NoLocks, <<>>, MAX_ALTERNATIVES)
    /\ assembly = NoAssembly
    /\ probe = NoProbe
    /\ probed = <<>>
    /\ panel = MountedPanel
    /\ roundsAbove = FALSE
    /\ graph = NoGraph
    /\ reordered = <<>>
    /\ regraph = NoGraph
    /\ fieldArg = "inputsTags"
    /\ rawTagsArg = <<>>
    /\ sanitized = NoTags
    /\ resanitized = NoTags
    /\ BuilderStepsIdle

\* assembleWorkflow(plan, skills, options); where the graph is left out it is built from
\* the catalog, whose threshold no rounding of doubles moves
Assemble ==
    /\ phase = "planned"
    /\ \E options \in AssemblerOptions :
          /\ options.graph.kind = "undefined" => ~tiedCatalog(skills)
          /\ optionsArg' = options
          /\ assembly' = assembleWorkflow(planArg, skills, options)
    /\ phase' = "assembled"
    /\ UNCHANGED <<skills, planArg, roundsAbove, graph, reordered, regraph, probe, probed, panel>>
    /\ UNCHANGED normalizerVars
    /\ UNCHANGED builderStepVars

AssemblerNext == Assemble

AssemblerSpec == AssemblerInit /\ [][AssemblerNext]_vars

ScoringInit ==
    /\ phase = "probe"
    /\ probe \in Probes
    /\ probed = <<>>
    /\ panel = MountedPanel
    /\ planArg = NoPlan
    /\ optionsArg = AssemblerGraphOptions(NullGraph, NoLocks, <<>>, MAX_ALTERNATIVES)
    /\ assembly = NoAssembly
    /\ skills = <<>>
    /\ roundsAbove = FALSE
    /\ graph = NoGraph
    /\ reordered = <<>>
    /\ regraph = NoGraph
    /\ fieldArg = "inputsTags"
    /\ rawTagsArg = <<>>
    /\ sanitized = NoTags
    /\ resanitized = NoTags
    /\ BuilderStepsIdle

\* evaluateCandidate(step, skill, previousSelected, edgeLookup, feedbackEntries) for the
\* entry and for the entry enlarged
Evaluate ==
    /\ phase = "probe"
    /\ probed' = [base |-> evaluateCandidate(probe.step, probe.skill, probe.previousSelected,
                                             buildEdgeLookup(probe.edges), probe.feedbackEntries),
                  enlarged |-> evaluateCandidate(probe.step, probe.enlarged, probe.previousSelected,
                                                 buildEdgeLookup(probe.edges), probe.feedbackEntries)]
    /\ phase' = "probed"
    /\ UNCHANGED <<probe, skills, planArg, optionsArg, assembly, roundsAbove, graph, reordered, regraph, panel>>
    /\ UNCHANGED normalizerVars
    /\ UNCHANGED builderStepVars

ScoringNext == Evaluate

ScoringSpec == ScoringInit /\ [][ScoringNext]_vars

PanelInit ==
    /\ phase = "panel"
    /\ panel = MountedPanel
    /\ probe = NoProbe
    /\ probed = <<>>
    /\ planArg = NoPlan
    /\ optionsArg = AssemblerGraphOptions(NullGraph, NoLocks, <<>>, MAX_ALTERNATIVES)
    /\ assembly = NoAssembly
    /\ skills = <<>>
    /\ roundsAbove = FALSE
    /\ graph = NoGraph
    /\ reordered = <<>>
    /\ regraph = NoGraph
    /\ fieldArg = "inputsTags"
    /\ rawTagsArg = <<>>
    /\ sanitized = NoTags
    /\ resanitized = NoTags
    /\ BuilderStepsIdle

PanelUnchanged ==
    UNCHANGED <<phase, skills, roundsAbove, graph, reordered, regraph, fieldArg, rawTagsArg, sanitized,
                resanitized, planArg, optionsArg, assembly, probe, probed, directedArg, resolution,
                adjacencyArg, chains>>

\* setAssembly(workflow) after assembling or importing; the selection has a danger skill or not
SetAssembly ==
    /\ panel.generation < MaxAssemblies
    /\ \E danger \in BOOLEAN : panel' = panelAfterSetAssembly(panel, danger)
    /\ PanelUnchanged

\* setAssembly(null): the plan is edited, or assembling or importing failed
ClearAssembly ==
    /\ panel' = panelAfterClearAssembly(panel)
    /\ PanelUnchanged

\* the skills are analysed again and riskLevel changes under the assembly
SkillsChange ==
    /\ panel.assembly = "set"
    /\ \E danger \in BOOLEAN : panel' = panelAfterSkills(panel, danger)
    /\ PanelUnchanged

\* a click on one of the two export buttons, which are rendered while there is an assembly
ClickExport ==
    /\ panel.assembly = "set"
    /\ Len(panel.exports) < MaxExports
    /\ \E action \in DangerExportActions : panel' = withDangerGate(panel, action)
    /\ PanelUnchanged

\* a click on Cancel or beside the dialog, which is rendered while an export is pending
ClickCancel ==
    /\ panel.pendingDangerExport # "none"
    /\ panel' = handleDangerGateCancel(panel)
    /\ PanelUnchanged

\* a click on Continue
ClickContinue ==
    /\ panel.pendingDangerExport # "none"
    /\ Len(panel.exports) < MaxExports
    /\ panel' = handleDangerGateContinue(panel)
    /\ PanelUnchanged

PanelNext == SetAssembly \/ ClearAssembly \/ SkillsChange \/ ClickExport \/ ClickCancel \/ ClickContinue

PanelSpec == PanelInit /\ [][PanelNext]_vars

(***************************************************************************)
(* Properties of the graph builder                                         *)
(***************************************************************************)
\* the calls of buildSkillGraph made so far: the entry list and the graph returned
Runs ==
    IF phase = "built" THEN {[entries |-> skills, result |-> graph]}
    ELSE IF phase = "rebuilt"
    THEN {[entries |-> skills, result |-> graph], [entries |-> reordered, result |-> regraph]}
    ELSE {}

UniqueIds(entries) == \A i, j \in DOMAIN entries : entries[i].id = entries[j].id => i = j

\* the capability tags of an entry as a set, stoplisted tags removed
CapabilitySet(entry) == SeqToSet(normalizeTags(entry.capabilitiesTags)) \ STOPLIST

HasNoTags(entry) ==
    entry.inputsTags = <<>> /\ entry.artifactsTags = <<>> /\ entry.capabilitiesTags = <<>>

EdgesOfType(result, type) == {i \in DOMAIN result.edges : result.edges[i].type = type}

\* number of edges of a type that have the node as an endpoint
DegreeOfType(result, type, node) ==
    Cardinality({i \in EdgesOfType(result, type) :
                    result.edges[i].from = node \/ result.edges[i].to = node})

\* C1: the returned edge list never holds a depends_on edge from a to b together
\* with a depends_on edge from b to a.
C1_NoReciprocalDependsOn ==
    \A run \in Runs :
        \A i, j \in EdgesOfType(run.result, "depends_on") :
            ~(/\ run.result.edges[i].from = run.result.edges[j].to
              /\ run.result.edges[i].to = run.result.edges[j].from)

\* a graph was built for two entries each of which produces an artifact the other
\* takes as input, both directions were candidates above the threshold, and one
\* depends_on edge between the two is returned
C1_Witness ==
    /\ phase = "built"
    /\ graph.metrics.dropReasons.reciprocalDependsOn > 0
    /\ \E i \in EdgesOfType(graph, "depends_on") :
          \E a, b \in DOMAIN skills :
             /\ skills[a].id = graph.edges[i].from
             /\ skills[b].id = graph.edges[i].to
             /\ intersectTags(skills[a].artifactsTags, skills[b].inputsTags) # <<>>
             /\ intersectTags(skills[b].artifactsTags, skills[a].inputsTags) # <<>>

\* C2: metrics.threshold is at least 1.2 and the reported score of every returned
\* edge is at least metrics.threshold.
C2_ReportedScoreAtLeastThreshold ==
    \A run \in Runs :
        /\ run.result.metrics.threshold[1] >= ABS_THRESHOLD
        /\ \A i \in DOMAIN run.result.edges :
              ~Below(run.result.edges[i].score, run.result.metrics.threshold)

\* C3: no entry is an endpoint of more than 5 complements edges or of more than
\* 3 alternative_to edges.
C3_DegreeCap ==
    \A run \in Runs :
        \A i \in DOMAIN run.entries :
            /\ DegreeOfType(run.result, "complements", run.entries[i].id) <= 5
            /\ DegreeOfType(run.result, "alternative_to", run.entries[i].id) <= 3

\* a graph in which one entry sits at both caps and the pruning dropped a
\* complements and an alternative_to candidate that had passed the threshold
C3_Witness ==
    /\ phase = "built"
    /\ graph.metrics.dropReasons.topK >= 2
    /\ \E i \in DOMAIN skills :
          /\ DegreeOfType(graph, "complements", skills[i].id) = 5
          /\ DegreeOfType(graph, "alternative_to", skills[i].id) = 3
          /\ Cardinality({j \in DOMAIN skills :
                            /\ j # i
                            /\ Cardinality(CapabilitySet(skills[i]) \cap CapabilitySet(skills[j])) >= 3}) > 5

\* C4: every alternative_to edge joins two entries whose stages are at most one
\* step apart and whose capability sets without stoplisted tags have a Jaccard
\* similarity of at least 0.6.
C4_AlternativeGuard ==
    \A run \in Runs :
        \A i \in EdgesOfType(run.result, "alternative_to") :
            \E a, b \in DOMAIN run.entries :
                /\ a # b
                /\ run.entries[a].id = run.result.edges[i].from
                /\ run.entries[b].id = run.result.edges[i].to
                /\ Abs(STAGE_ORDER(run.entries[a].stage) - STAGE_ORDER(run.entries[b].stage)) <= 1
                /\ 10 * Cardinality(CapabilitySet(run.entries[a]) \cap CapabilitySet(run.entries[b]))
                      >= 6 * Cardinality(CapabilitySet(run.entries[a]) \cup CapabilitySet(run.entries[b]))

\* a graph with an alternative_to edge between entries of different stages whose
\* capability sets differ
C4_Witness ==
    /\ phase = "built"
    /\ \E i \in EdgesOfType(graph, "alternative_to") :
          \E a, b \in DOMAIN skills :
             /\ skills[a].id = graph.edges[i].from
             /\ skills[b].id = graph.edges[i].to
             /\ skills[a].stage # skills[b].stage
             /\ CapabilitySet(skills[a]) # CapabilitySet(skills[b])

\* C5: for an entry list with unique ids and a permutation of it, buildSkillGraph
\* returns the same set of edges (from, to, type, score, overlap tags) and the
\* same metrics record.
C5_PermutationInvariant ==
    (phase = "rebuilt" /\ UniqueIds(skills)) =>
        /\ SeqToSet(graph.edges) = SeqToSet(regraph.edges)
        /\ graph.metrics = regraph.metrics

\* the two entries of scenario A, in either order
IsScenarioA(entries) ==
    /\ Len(entries) = 2
    /\ \E a, b \in DOMAIN entries :
          /\ a # b
          /\ entries[a].stage = "implement" /\ entries[a].artifactsTags = <<"code">>
          /\ entries[a].inputsTags = <<>> /\ entries[a].capabilitiesTags = <<>>
          /\ entries[b].stage = "verify" /\ entries[b].inputsTags = <<"code">>
          /\ entries[b].artifactsTags = <<>> /\ entries[b].capabilitiesTags = <<>>

\* C6: for the catalog of exactly two entries A (implement, artifacts [code]) and
\* B (verify, inputs [code]) the graph has no edge and dropReasons.spec is 1 or 2.
C6_ScenarioA ==
    \A run \in Runs :
        IsScenarioA(run.entries) =>
            /\ run.result.edges = <<>>
            /\ run.result.metrics.dropReasons.spec \in {1, 2}

\* scenario A was built, in both orders of the two entries
C6_Witness == phase = "rebuilt" /\ IsScenarioA(skills) /\ IsScenarioA(reordered)

\* an alternative_to edge between every two of the entries at the given positions
AllPairsAlternative(run, positions) ==
    \A a, b \in positions :
        a # b =>
            \E i \in EdgesOfType(run.result, "alternative_to") :
                {run.result.edges[i].from, run.result.edges[i].to} = {run.entries[a].id, run.entries[b].id}

\* three entries, all at the same stage, with identical capability sets that hold a
\* non-stoplisted tag
IsScenarioB(entries) ==
    /\ Len(entries) = 3
    /\ UniqueIds(entries)
    /\ \A a, b \in DOMAIN entries :
          /\ entries[a].stage = entries[b].stage
          /\ SeqToSet(normalizeTags(entries[a].capabilitiesTags))
                = SeqToSet(normalizeTags(entries[b].capabilitiesTags))
    /\ CapabilitySet(entries[1]) # {}

\* C7 as stated: for a catalog of three entries at the same stage that all share one
\* rare, non-stoplisted capability tag, the graph has an alternative_to edge between
\* every pair of the three.
C7_ScenarioBThreeEntries ==
    \A run \in Runs : IsScenarioB(run.entries) => AllPairsAlternative(run, DOMAIN run.entries)

\* the positions of the entries that carry tags
Tagged(entries) == {i \in DOMAIN entries : ~HasNoTags(entries[i])}

\* scenario B inside a catalog of at least ten entries, where a tag of three entries is specific:
\* exactly three entries carry tags, all three at the same stage, each with the same
\* single non-stoplisted capability tag and nothing else
IsScenarioBPadded(entries) ==
    /\ UniqueIds(entries)
    /\ Cardinality(Tagged(entries)) = 3
    /\ Len(entries) >= 10
    /\ \A a, b \in Tagged(entries) :
          /\ entries[a].stage = entries[b].stage
          /\ entries[a].capabilitiesTags = entries[b].capabilitiesTags
          /\ Len(entries[a].capabilitiesTags) = 1
          /\ entries[a].capabilitiesTags[1] \notin STOPLIST
          /\ normalizeToken(entries[a].capabilitiesTags[1]) # ""
          /\ entries[a].inputsTags = <<>> /\ entries[a].artifactsTags = <<>>

\* C7, amended: in a catalog of at least ten entries in which exactly three entries
\* carry tags, all three at the same stage and each with the same single
\* non-stoplisted capability tag and no other tag, the graph has an alternative_to
\* edge between every pair of the three.
C7_ScenarioBPadded ==
    \A run \in Runs : IsScenarioBPadded(run.entries) => AllPairsAlternative(run, Tagged(run.entries))

\* the padded scenario B was built and returned its three alternative_to edges
C7_Witness ==
    /\ phase = "built"
    /\ IsScenarioBPadded(skills)
    /\ Cardinality(EdgesOfType(graph, "alternative_to")) = 3

(***************************************************************************)
(* Properties of the tag normalizer                                        *)
(***************************************************************************)
\* the raw tags a call reads: positions 1..24 of the list it was given
ReadPositions == {k \in DOMAIN rawTagsArg : k <= RAW_TAG_LIMIT}

\* the canonical tag the raw tag at a position is accepted as in the field, as a
\* list of at most one tag: what the call returns for that raw tag alone
AcceptedAt(k) == sanitizeTagField(<<rawTagsArg[k]>>, fieldArg).tags

\* the first read position at which a tag is accepted
FirstAccepted(tag) ==
    CHOOSE k \in ReadPositions :
        /\ AcceptedAt(k) = <<tag>>
        /\ \A j \in ReadPositions : AcceptedAt(j) = <<tag>> => k <= j

\* ARTIFACT_FIELD_AUTOCORRECT[mapped]
AutocorrectTarget(mapped) ==
    IF mapped \in DOMAIN Chars THEN lookup(ARTIFACT_FIELD_AUTOCORRECT, Chars[mapped]) ELSE NoTag

\* C8: for each of the three fields, normalizing the canonical tag list a previous
\* normalization of the same field returned gives back exactly that list, in the
\* same order, with no issues.
C8_Idempotent ==
    phase = "resanitized" => resanitized.tags = sanitized.tags /\ resanitized.issues = <<>>

\* a full canonical list of the artifacts field, whose first normalization raised
\* issues, was normalized again
C8_Witness ==
    /\ phase = "resanitized"
    /\ fieldArg = "artifactsTags"
    /\ Len(sanitized.tags) = TAG_LIMIT
    /\ sanitized.issues # <<>>
    /\ resanitized.tags = sanitized.tags

\* C9: every canonical tag returned for the artifacts field is in the artifacts
\* allow-list; a raw tag mapped to a tag outside the allow-list is either replaced by
\* the autocorrect target of that tag, itself in the allow-list, or dropped with a
\* field_not_allowed issue.
C9_ArtifactsAllowList ==
    (phase \in {"sanitized", "resanitized"} /\ fieldArg = "artifactsTags") =>
        /\ SeqToSet(sanitized.tags) \subseteq ARTIFACT_TAGS_ALLOWED
        /\ phase = "resanitized" => SeqToSet(resanitized.tags) \subseteq ARTIFACT_TAGS_ALLOWED
        /\ \A k \in ReadPositions :
              LET mapped == mapRawTag(rawTagsArg[k]).mapped
                  target == AutocorrectTarget(mapped)
                  dropped == \E i \in DOMAIN sanitized.issues :
                                 /\ sanitized.issues[i].reason = "field_not_allowed"
                                 /\ sanitized.issues[i].field = "artifactsTags"
                                 /\ sanitized.issues[i].rawTag = Chars[rawTagsArg[k]]
                                 /\ sanitized.issues[i].mappedTo = mapped
              IN  (mapped # NoTag /\ mapped \notin ARTIFACT_TAGS_ALLOWED) =>
                      \/ /\ target \in ARTIFACT_TAGS_ALLOWED
                         /\ Includes(sanitized.tags, target) \/ Len(sanitized.tags) = TAG_LIMIT
                         /\ ~dropped
                      \/ /\ target \notin ARTIFACT_TAGS_ALLOWED
                         /\ dropped

\* an artifacts call replaced one mapped tag by its autocorrect target and dropped
\* another with a field_not_allowed issue
C9_Witness ==
    /\ phase = "sanitized"
    /\ fieldArg = "artifactsTags"
    /\ \E k \in ReadPositions :
          LET mapped == mapRawTag(rawTagsArg[k]).mapped
          IN  /\ mapped # NoTag
              /\ mapped \notin ARTIFACT_TAGS_ALLOWED
              /\ Includes(sanitized.tags, AutocorrectTarget(mapped))
    /\ \E i \in DOMAIN sanitized.issues : sanitized.issues[i].reason = "field_not_allowed"

\* C10: the returned canonical list has no duplicates, has at most 8 entries, lists
\* tags in the order in which they were first accepted, and the canonical list and
\* the issue list are those of the first 24 raw tags alone: raw tags from position
\* 25 on change nothing and produce no issue.
C10_DedupedOrderedCapped ==
    phase \in {"sanitized", "resanitized"} =>
        LET tags == sanitized.tags
            accepted == UNION {SeqToSet(AcceptedAt(k)) : k \in ReadPositions}
        IN  /\ \A i, j \in DOMAIN tags : tags[i] = tags[j] => i = j
            /\ Len(tags) <= 8
            /\ SeqToSet(tags) \subseteq accepted
            /\ Len(tags) < 8 => SeqToSet(tags) = accepted
            /\ \A i, j \in DOMAIN tags : i < j => FirstAccepted(tags[i]) < FirstAccepted(tags[j])
            /\ \A tag \in accepted \ SeqToSet(tags) :
                  \A i \in DOMAIN tags : FirstAccepted(tags[i]) < FirstAccepted(tag)
            /\ sanitized = sanitizeTagField(
                               SubSeq(rawTagsArg, 1, IF Len(rawTagsArg) < 24 THEN Len(rawTagsArg) ELSE 24),
                               fieldArg)
            /\ \A i \in DOMAIN sanitized.issues :
                  \E k \in ReadPositions :
                      sanitized.issues[i].rawTag \in {Chars[rawTagsArg[k]], trim(Chars[rawTagsArg[k]])}

\* a call was given more than 24 raw tags: it returned 8 tags, accepted further tags
\* it left out, read one tag twice, and a raw tag behind position 24 would have been
\* accepted as a tag the list does not hold
C10_Witness ==
    /\ phase = "sanitized"
    /\ Len(rawTagsArg) > RAW_TAG_LIMIT
    /\ Len(sanitized.tags) = TAG_LIMIT
    /\ \E k \in ReadPositions : AcceptedAt(k) # <<>> /\ ~Includes(sanitized.tags, AcceptedAt(k)[1])
    /\ \E j, k \in ReadPositions : j < k /\ AcceptedAt(j) # <<>> /\ AcceptedAt(j) = AcceptedAt(k)
    /\ \E k \in DOMAIN rawTagsArg :
          /\ k > RAW_TAG_LIMIT
          /\ AcceptedAt(k) # <<>>
          /\ ~Includes(sanitized.tags, AcceptedAt(k)[1])

\* an issue of the call with the reason and the raw tag, an array of characters
HasIssue(reason, rawChars) ==
    \E i \in DOMAIN sanitized.issues :
        /\ sanitized.issues[i].reason = reason
        /\ sanitized.issues[i].rawTag = rawChars
        /\ sanitized.issues[i].field = fieldArg

\* the raw tag at position k is mapped to a vocabulary tag the field does not take
\* and that ARTIFACT_FIELD_AUTOCORRECT does not turn into one the field takes
DisallowedAt(k) ==
    LET mapped == mapRawTag(rawTagsArg[k]).mapped
    IN  /\ mapped \in VOCAB_SET
        /\ mapped \notin FIELD_ALLOWED(fieldArg)
        /\ ~(fieldArg = "artifactsTags" /\ AutocorrectTarget(mapped) \in FIELD_ALLOWED(fieldArg))

\* C11: for every field, each of the first 24 raw tags that is not blank and that
\* mapRawTag cannot map to a vocabulary entry produces an issue with reason
\* unknown_tag; each raw tag mapped to a tag that is disallowed for the field and
\* not autocorrectable produces an issue with reason field_not_allowed; in both
\* cases the tag is absent from the returned canonical list.
C11_UnmappableRaisesIssue ==
    phase \in {"sanitized", "resanitized"} =>
        \A k \in ReadPositions :
            LET mapped == mapRawTag(rawTagsArg[k]).mapped
            IN  /\ (trim(Chars[rawTagsArg[k]]) # <<>> /\ mapped \notin VOCAB_SET) =>
                      /\ HasIssue("unknown_tag", trim(Chars[rawTagsArg[k]]))
                      /\ ~Includes(sanitized.tags, mapped)
                /\ DisallowedAt(k) =>
                      /\ HasIssue("field_not_allowed", Chars[rawTagsArg[k]])
                      /\ ~Includes(sanitized.tags, mapped)

\* C11, the part the code keeps: a raw tag other than one that names a property
\* every object inherits
C11_UnmappableRaisesIssueOwnKeys ==
    phase \in {"sanitized", "resanitized"} =>
        \A k \in ReadPositions :
            LET mapped == mapRawTag(rawTagsArg[k]).mapped
            IN  /\ (trim(Chars[rawTagsArg[k]]) # <<>> /\ mapped \notin VOCAB_SET /\ mapped # ObjectConstructor) =>
                      /\ HasIssue("unknown_tag", trim(Chars[rawTagsArg[k]]))
                      /\ ~Includes(sanitized.tags, mapped)
                /\ DisallowedAt(k) =>
                      /\ HasIssue("field_not_allowed", Chars[rawTagsArg[k]])
                      /\ ~Includes(sanitized.tags, mapped)

(***************************************************************************)
(* Properties of the workflow assembler                                    *)
(***************************************************************************)
\* the positions of the plan's steps, once assembleWorkflow has returned
AssembledSteps == IF phase = "assembled" THEN DOMAIN planArg.steps ELSE {}

\* the id assembleWorkflow gives the step at a position
StepIdAt(i) == stepIdOf(planArg.steps[i], i)

\* the options hold a locked entry id for the step
HasLock(i) == StepIdAt(i) \in DOMAIN optionsArg.lockedSkillByStepId

\* the locked entry id of the step is the id of an entry of the catalog
HasValidLock(i) ==
    /\ HasLock(i)
    /\ \E j \in DOMAIN skills : skills[j].id = optionsArg.lockedSkillByStepId[StepIdAt(i)]

\* the entry selected at the step before, as the result reports it
PreviousWinner(i) ==
    IF i = 1 \/ assembly.steps[i - 1].selected = <<>> THEN <<>>
    ELSE <<skills[CHOOSE j \in DOMAIN skills : skills[j].id = assembly.steps[i - 1].selected[1].skillId]>>

\* evaluateCandidate for every entry of the catalog at a step, given the reported
\* winner of the step before
EvaluationsAt(i) ==
    {evaluateCandidate(planArg.steps[i], skills[j], PreviousWinner(i),
                       buildEdgeLookup(graphEdgesOf(optionsArg, skills)), optionsArg.feedbackEntries) :
        j \in DOMAIN skills}

\* score >= 1.15 and (a matched tag or a graph boost)
Selectable(entry) ==
    /\ \/ entry.score.exact > 11500
       \/ (entry.score.exact = 11500 /\ entry.score.ulps >= 0)
    /\ (entry.matchedTags # <<>> \/ entry.graphBoost > 0)

SelectableAt(i) == {entry \in EvaluationsAt(i) : Selectable(entry)}

\* a has a higher score than b, or an equal score and a smaller id
Outranks(a, b) ==
    \/ a.score.exact > b.score.exact
    \/ (a.score.exact = b.score.exact /\ a.score.ulps > b.score.ulps)
    \/ (a.score = b.score /\ a.candidate.skillId < b.candidate.skillId)

\* the evaluation of the step's winner
WinnerAt(i) ==
    {entry \in EvaluationsAt(i) :
        /\ assembly.steps[i].selected # <<>>
        /\ entry.candidate.skillId = assembly.steps[i].selected[1].skillId}

ReportedTieWonByLargerId ==
    \E i \in AssembledSteps :
        /\ ~HasLock(i)
        /\ \E winner \in WinnerAt(i), other \in SelectableAt(i) :
              /\ other.candidate.score = winner.candidate.score
              /\ other.candidate.skillId < winner.candidate.skillId

\* the options without the lock of the step's id
WithoutLock(i) ==
    [optionsArg EXCEPT !.lockedSkillByStepId =
        [id \in DOMAIN optionsArg.lockedSkillByStepId \ {StepIdAt(i)} |-> optionsArg.lockedSkillByStepId[id]]]

\* C13: at a step whose id has a locked entry id in the options, if the id is in the
\* catalog the winner is that entry with the score and matched tags evaluateCandidate gives
\* it, selectable or not, and the step is reported locked; if the id is not in the catalog
\* the winner, the alternatives, the missing tags and locked = false are those of the same
\* call without the lock.
C13_LockedEntryWins ==
    \A i \in AssembledSteps :
        HasLock(i) =>
            IF HasValidLock(i)
            THEN /\ assembly.steps[i].selected # <<>>
                 /\ assembly.steps[i].selected[1].skillId = optionsArg.lockedSkillByStepId[StepIdAt(i)]
                 /\ assembly.steps[i].locked
                 /\ \E entry \in EvaluationsAt(i) :
                       /\ entry.candidate.skillId = assembly.steps[i].selected[1].skillId
                       /\ entry.candidate.score = assembly.steps[i].selected[1].score
                       /\ entry.candidate.matchedTags = assembly.steps[i].selected[1].matchedTags
            ELSE /\ ~assembly.steps[i].locked
                 /\ assembly.steps[i].selected = assembleWorkflow(planArg, skills, WithoutLock(i)).steps[i].selected
                 /\ assembly.steps[i].alternatives
                        = assembleWorkflow(planArg, skills, WithoutLock(i)).steps[i].alternatives
                 /\ assembly.steps[i].missingCapabilities
                        = assembleWorkflow(planArg, skills, WithoutLock(i)).steps[i].missingCapabilities

\* a locked entry of the catalog wins a step although it is not selectable and another
\* entry is
C13_Witness ==
    \E i \in AssembledSteps :
        /\ HasValidLock(i)
        /\ assembly.steps[i].locked
        /\ SelectableAt(i) # {}
        /\ \A entry \in WinnerAt(i) : ~Selectable(entry)

\* a lock on an id outside the catalog at a step that has a winner
UnknownLockIgnored ==
    \E i \in AssembledSteps :
        HasLock(i) /\ ~HasValidLock(i) /\ assembly.steps[i].selected # <<>> /\ ~assembly.steps[i].locked

\* the evaluation behind a reported candidate of the step
EvaluationOf(i, candidate) == CHOOSE entry \in EvaluationsAt(i) : entry.candidate.skillId = candidate.skillId

\* the selectable candidates of the step that are neither its winner nor among its alternatives
PassedOver(i) ==
    {entry \in SelectableAt(i) \ WinnerAt(i) :
        \A k \in DOMAIN assembly.steps[i].alternatives :
            assembly.steps[i].alternatives[k].skillId # entry.candidate.skillId}

RequiredTags(i) ==
    {normalizeToken(tag) :
        tag \in SeqToSet(planArg.steps[i].inputsTags) \cup SeqToSet(planArg.steps[i].outputsTags)
                    \cup SeqToSet(planArg.steps[i].capabilitiesTags)} \ {""}

\* the place of a tag in the order of Array.prototype.sort
TagRank(tag) == CHOOSE k \in DOMAIN TagOrder : TagOrder[k] = tag

\* no element twice
DuplicateFree(s) == \A k, l \in DOMAIN s : s[k] = s[l] => k = l

\* C15: in every step result missingCapabilities and overlapTags are disjoint and, with
\* a winner, together make up the normalized union of the step's required tags; without a
\* winner missingCapabilities is that whole union; the plan-wide missingCapabilities is the
\* sorted, duplicate-free union of the per-step lists.
C15_MissingAndOverlapPartitionRequired ==
    phase = "assembled" =>
        /\ \A i \in AssembledSteps :
              /\ SeqToSet(assembly.steps[i].missingCapabilities) \cap SeqToSet(assembly.steps[i].overlapTags) = {}
              /\ SeqToSet(assembly.steps[i].missingCapabilities) \cup SeqToSet(assembly.steps[i].overlapTags)
                    = RequiredTags(i)
              /\ DuplicateFree(assembly.steps[i].missingCapabilities)
              /\ assembly.steps[i].selected = <<>> =>
                    /\ SeqToSet(assembly.steps[i].missingCapabilities) = RequiredTags(i)
                    /\ assembly.steps[i].overlapTags = <<>>
        /\ SeqToSet(assembly.missingCapabilities)
              = UNION {SeqToSet(assembly.steps[i].missingCapabilities) : i \in AssembledSteps}
        /\ \A k, l \in DOMAIN assembly.missingCapabilities :
              k < l => TagRank(assembly.missingCapabilities[k]) < TagRank(assembly.missingCapabilities[l])

\* two steps miss a common tag, one of them has a winner that covers some of its required
\* tags and not others, and the tags were not met in sorted order
C15_Witness ==
    \E i, j \in AssembledSteps :
        /\ i < j
        /\ SeqToSet(assembly.steps[i].missingCapabilities) \cap SeqToSet(assembly.steps[j].missingCapabilities) # {}
        /\ \E n \in {i, j} :
              /\ assembly.steps[n].selected # <<>>
              /\ assembly.steps[n].overlapTags # <<>>
              /\ assembly.steps[n].missingCapabilities # <<>>
        /\ assembly.missingCapabilities
              # Dedupe(assembly.steps[i].missingCapabilities \o assembly.steps[j].missingCapabilities)

\* the candidates a step result reports: the winner and the alternatives
ReportedAt(i) ==
    SeqToSet(assembly.steps[i].selected) \cup SeqToSet(assembly.steps[i].alternatives)

\* the reasoning of a candidate names a graph boost
HasBoostPart(candidate) ==
    \E k \in DOMAIN candidate.reasoning :
        candidate.reasoning[k][1] \in {"prev artifacts->inputs", "graph depends_on", "graph precedes"}

\* the step is the first one or follows a step without a winner
FollowsNoWinner(i) == i = 1 \/ assembly.steps[i - 1].selected = <<>>

\* the plan cut after its first n steps
PlanPrefix(n) == [steps |-> SubSeq(planArg.steps, 1, n)]

\* C16: every candidate reported at a step carries the score and the reasoning
\* evaluateCandidate gives it against the winner of the step before, locked or not; at the
\* first step and after a step without a winner no reported candidate has a graph boost and
\* a winner chosen without a lock has a matched tag; the results of the first n steps are
\* those of the plan cut after n steps.
C16_BoostFollowsPreviousWinner ==
    /\ \A i \in AssembledSteps :
          /\ \A candidate \in ReportedAt(i) :
                \E entry \in EvaluationsAt(i) :
                    /\ entry.candidate.skillId = candidate.skillId
                    /\ entry.candidate.score = candidate.score
                    /\ candidate.reasoning
                          \in {entry.candidate.reasoning, <<<<"locked selection">>>> \o entry.candidate.reasoning}
          /\ FollowsNoWinner(i) =>
                /\ \A candidate \in ReportedAt(i) : ~HasBoostPart(candidate)
                /\ \A entry \in EvaluationsAt(i) : entry.graphBoost = 0
                /\ (assembly.steps[i].selected # <<>> /\ ~HasValidLock(i)) =>
                      assembly.steps[i].selected[1].matchedTags # <<>>
    /\ \A n \in AssembledSteps :
          assembleWorkflow(PlanPrefix(n), skills, optionsArg).steps = SubSeq(assembly.steps, 1, n)

\* a winner with a graph boost from the winner of the step before, in a plan that goes on
C16_Witness ==
    \E i \in AssembledSteps :
        /\ i > 1
        /\ i < Len(planArg.steps)
        /\ assembly.steps[i - 1].selected # <<>>
        /\ assembly.steps[i].selected # <<>>
        /\ HasBoostPart(assembly.steps[i].selected[1])

\* a step with a winner, then a step without one, then a step with a candidate that would
\* have had a boost from the earlier winner
BoostResetAfterNoWinner ==
    \E i \in AssembledSteps :
        /\ i > 2
        /\ assembly.steps[i - 2].selected # <<>>
        /\ assembly.steps[i - 1].selected = <<>>
        /\ \E entry \in {evaluateCandidate(planArg.steps[i], skills[j], PreviousWinner(i - 1),
                                             buildEdgeLookup(graphEdgesOf(optionsArg, skills)),
                                             optionsArg.feedbackEntries) : j \in DOMAIN skills} :
              entry.graphBoost > 0 /\ entry.score.exact >= MIN_SELECTABLE_SCORE

\* the reasoning string of a step without a winner
NoCandidateReasoning == <<<<"No candidate met minimum score/overlap constraints">>>>

\* the step has no selectable candidate and no lock on an entry of the catalog
NothingToSelect(i) == SelectableAt(i) = {} /\ ~HasValidLock(i)

\* what the result holds for a step that has nothing to select, the reasoning aside
EmptyStepResult(i) ==
    /\ assembly.steps[i].selected = <<>>
    /\ ~assembly.steps[i].locked
    /\ assembly.steps[i].alternatives = <<>>
    /\ SeqToSet(assembly.steps[i].missingCapabilities) = RequiredTags(i)

\* one step result per plan step, in plan order
OneResultPerStep ==
    /\ Len(assembly.steps) = Len(planArg.steps)
    /\ \A i \in AssembledSteps :
          /\ assembly.steps[i].stepId = StepIdAt(i)
          /\ assembly.steps[i].stage = planArg.steps[i].stage

\* C17: assembleWorkflow returns one step result per plan step, in plan order; a step
\* with no selectable candidate and no valid lock has selected = null, locked = false, no
\* alternatives, the full required-tag union as missing tags and the fixed no-candidate
\* reasoning string, whatever the steps before and after it.
C17_NoCandidateStepReported ==
    phase = "assembled" =>
        /\ OneResultPerStep
        /\ \A i \in AssembledSteps :
              NothingToSelect(i) =>
                  /\ EmptyStepResult(i)
                  /\ assembly.reasoning[StepIdAt(i)] = NoCandidateReasoning

\* the same for the steps whose id no later step of the plan has
C17_NoCandidateStepReportedUniqueIds ==
    phase = "assembled" =>
        /\ OneResultPerStep
        /\ \A i \in AssembledSteps :
              NothingToSelect(i) =>
                  /\ EmptyStepResult(i)
                  /\ (\A j \in AssembledSteps : j > i => StepIdAt(j) # StepIdAt(i)) =>
                        assembly.reasoning[StepIdAt(i)] = NoCandidateReasoning

\* a step with nothing to select between two steps with a winner
NoCandidateBetweenWinners ==
    \E i \in AssembledSteps :
        /\ i > 1 /\ i < Len(planArg.steps)
        /\ NothingToSelect(i)
        /\ assembly.steps[i - 1].selected # <<>>
        /\ assembly.steps[i + 1].selected # <<>>
        /\ assembly.reasoning[StepIdAt(i)] = NoCandidateReasoning

\* the required tags of the step are inputsTags = [spec]
RequiresOnlySpecInput(i) ==
    /\ planArg.steps[i].inputsTags = <<"spec">>
    /\ planArg.steps[i].outputsTags = <<>>
    /\ planArg.steps[i].capabilitiesTags = <<>>

\* no entry of the catalog has spec among its input or capability tags
NoEntryTakesSpec ==
    \A j \in DOMAIN skills :
        \A tag \in SeqToSet(skills[j].inputsTags) \cup SeqToSet(skills[j].capabilitiesTags) :
            normalizeToken(tag) # "spec"

\* C18 as stated: at any position, a step without a lock that requires inputsTags = [spec],
\* with no entry having spec among its input or capability tags, has no winner and misses spec.
C18_SpecStepHasNoWinner ==
    \A i \in AssembledSteps :
        (~HasLock(i) /\ RequiresOnlySpecInput(i) /\ NoEntryTakesSpec) =>
            /\ assembly.steps[i].selected = <<>>
            /\ Includes(assembly.steps[i].missingCapabilities, "spec")

\* C18 amended: such a step misses spec at any position; it has no winner when it is the
\* first step or follows a step without a winner, and after a step with a winner its winner,
\* if any, has no matched tag and a graph boost.
C18_SpecStepHasNoWinnerWithoutBoost ==
    \A i \in AssembledSteps :
        (~HasLock(i) /\ RequiresOnlySpecInput(i) /\ NoEntryTakesSpec) =>
            /\ Includes(assembly.steps[i].missingCapabilities, "spec")
            /\ FollowsNoWinner(i) => assembly.steps[i].selected = <<>>
            /\ assembly.steps[i].selected # <<>> =>
                  /\ assembly.steps[i].selected[1].matchedTags = <<>>
                  /\ HasBoostPart(assembly.steps[i].selected[1])

\* a first step requiring inputsTags = [spec] and a catalog without spec in which an entry
\* reaches the minimum score and still does not win
C18_Witness ==
    /\ 1 \in AssembledSteps
    /\ ~HasLock(1)
    /\ RequiresOnlySpecInput(1)
    /\ NoEntryTakesSpec
    /\ \E entry \in EvaluationsAt(1) : entry.score.exact >= MIN_SELECTABLE_SCORE
    /\ assembly.steps[1].selected = <<>>

\* such a step after a step with a winner, won by an entry with a graph boost
SpecStepWonByBoost ==
    \E i \in AssembledSteps :
        /\ ~HasLock(i) /\ RequiresOnlySpecInput(i) /\ NoEntryTakesSpec
        /\ assembly.steps[i].selected # <<>>

(***************************************************************************)
(* Properties of evaluateCandidate                                         *)
(***************************************************************************)
\* the numbers of matched input, output and capability tags of an entry for the step probed
MatchCounts(skill) ==
    <<Cardinality({tag \in SeqToSet(normalizeTags(probe.step.inputsTags)) :
          tag \in SeqToSet(normalizeTags(skill.inputsTags)) \cup SeqToSet(normalizeTags(skill.capabilitiesTags))}),
      Cardinality({tag \in SeqToSet(normalizeTags(probe.step.outputsTags)) :
          tag \in SeqToSet(normalizeTags(skill.artifactsTags))}),
      Cardinality({tag \in SeqToSet(normalizeTags(probe.step.capabilitiesTags)) :
          tag \in SeqToSet(normalizeTags(skill.capabilitiesTags))})>>

\* the enlarged entry matches more tags of the step than the entry
OverlapRaised ==
    /\ \A k \in 1..3 : MatchCounts(probe.enlarged)[k] >= MatchCounts(probe.skill)[k]
    /\ \E k \in 1..3 : MatchCounts(probe.enlarged)[k] > MatchCounts(probe.skill)[k]

\* the score of the first evaluation is lower than that of the second
ScoreBelow(a, b) ==
    \/ a.score.exact < b.score.exact
    \/ (a.score.exact = b.score.exact /\ a.score.ulps < b.score.ulps)

\* C19: for a fixed step, previous selection, graph and feedback, an entry enlarged so that
\* it matches more input, output or capability tags, with the same stage and id, does not
\* score lower than the entry, neither in the score compared nor in the score reported.
C19_ScoreMonotoneInOverlap ==
    (phase = "probed" /\ OverlapRaised) =>
        /\ ~ScoreBelow(probed.enlarged, probed.base)
        /\ probed.enlarged.candidate.score >= probed.base.candidate.score

\* an entry with a previous selection and feedback on it scores higher once a tag is added
C19_Witness ==
    /\ phase = "probed"
    /\ OverlapRaised
    /\ probe.previousSelected # <<>>
    /\ \E k \in DOMAIN probe.feedbackEntries : probe.feedbackEntries[k].skillId = probe.skill.id
    /\ probed.base.graphBoost > 0
    /\ ScoreBelow(probed.base, probed.enlarged)

\* whatever tag is added to whatever list, the score does not get lower
AnyEnlargementKeepsScore == phase = "probed" => ~ScoreBelow(probed.enlarged, probed.base)

TagSet(tags) == SeqToSet(normalizeTags(tags))

\* the capability tags two entries share
SharedCapabilities(a, b) == TagSet(a.capabilitiesTags) \cap TagSet(b.capabilitiesTags)

\* the interface artifact tags the first entry produces and the second takes as input
Feeds(a, b) == (TagSet(a.artifactsTags) \cap TagSet(b.inputsTags)) \cap ARTIFACT_INTERFACE_SET

\* the pairs of positions of the entries an edge joins
EndpointsOf(run, i) ==
    {pr \in (DOMAIN run.entries) \X (DOMAIN run.entries) :
        /\ pr[1] # pr[2]
        /\ run.entries[pr[1]].id = run.result.edges[i].from
        /\ run.entries[pr[2]].id = run.result.edges[i].to}

\* C22 as stated: the overlap tags of every complements edge are capability tags
\* shared by both of its endpoints.
C22_ComplementsShareCapabilities ==
    \A run \in Runs :
        \A i \in EdgesOfType(run.result, "complements") :
            \E pr \in EndpointsOf(run, i) :
                SeqToSet(run.result.edges[i].overlapTags)
                    \subseteq SharedCapabilities(run.entries[pr[1]], run.entries[pr[2]])

\* C22, amended: every overlap tag of a complements edge is a capability tag shared
\* by both endpoints or a non-stoplisted interface artifact tag that one endpoint
\* produces and the other takes as input; and unless the two endpoints feed each
\* other in both directions, all of them are shared capability tags.
C22_ComplementsShareCapabilitiesOrFeed ==
    \A run \in Runs :
        \A i \in EdgesOfType(run.result, "complements") :
            \E pr \in EndpointsOf(run, i) :
                LET a == run.entries[pr[1]]
                    b == run.entries[pr[2]]
                    tags == SeqToSet(run.result.edges[i].overlapTags)
                IN  /\ tags # {}
                    /\ tags \cap STOPLIST = {}
                    /\ tags \subseteq SharedCapabilities(a, b) \cup Feeds(a, b) \cup Feeds(b, a)
                    /\ (Feeds(a, b) = {} \/ Feeds(b, a) = {}) => tags \subseteq SharedCapabilities(a, b)

\* a complements edge between two entries that feed each other: its overlap tags are
\* the artifact tags of the two directions, none of them a capability of either entry
C22_Witness ==
    /\ phase = "built"
    /\ UniqueIds(skills)
    /\ \E i \in EdgesOfType(graph, "complements") :
          \E pr \in EndpointsOf([entries |-> skills, result |-> graph], i) :
             LET tags == SeqToSet(graph.edges[i].overlapTags)
             IN  /\ tags = Feeds(skills[pr[1]], skills[pr[2]]) \cup Feeds(skills[pr[2]], skills[pr[1]])
                 /\ Cardinality(tags) > 1
                 /\ tags \cap (TagSet(skills[pr[1]].capabilitiesTags) \cup TagSet(skills[pr[2]].capabilitiesTags)) = {}

\* the stages from the earliest to the latest
StageSequence ==
    <<"intake", "plan", "implement", "verify", "refactor", "security", "docs", "release", "other">>

\* the first stage comes strictly before the second
StrictlyEarlier(first, second) ==
    \E i, j \in DOMAIN StageSequence :
        StageSequence[i] = first /\ StageSequence[j] = second /\ i < j

\* the ids reached from a set of ids along edges given as pairs <<from, to>>
RECURSIVE ReachedFrom(_, _)
ReachedFrom(pairs, ids) ==
    LET next == ids \cup {pr[2] : pr \in {q \in pairs : q[1] \in ids}}
    IN  IF next = ids THEN ids ELSE ReachedFrom(pairs, next)

\* no id is reached from itself along the edges
Acyclic(pairs) == \A pr \in pairs : pr[1] \notin ReachedFrom(pairs, {pr[2]})

PrecedesPairs(result) ==
    {<<result.edges[i].from, result.edges[i].to>> : i \in EdgesOfType(result, "precedes")}

\* C23: every precedes edge goes from an entry to an entry at a strictly later stage,
\* its overlap tags are a non-empty set of non-stoplisted interface artifact tags
\* contained in the source's artifacts and in the target's inputs, and the precedes
\* edges of a graph form no cycle.
C23_PrecedesForwardAndAcyclic ==
    \A run \in Runs :
        /\ \A i \in EdgesOfType(run.result, "precedes") :
              \E pr \in EndpointsOf(run, i) :
                 LET tags == SeqToSet(run.result.edges[i].overlapTags)
                 IN  /\ StrictlyEarlier(run.entries[pr[1]].stage, run.entries[pr[2]].stage)
                     /\ tags # {}
                     /\ tags \cap STOPLIST = {}
                     /\ tags \subseteq ARTIFACT_INTERFACE_SET
                     /\ tags \subseteq TagSet(run.entries[pr[1]].artifactsTags)
                     /\ tags \subseteq TagSet(run.entries[pr[2]].inputsTags)
        /\ Acyclic(PrecedesPairs(run.result))

\* a graph with two precedes edges into an entry whose input is written "Code", while
\* the candidates in the opposite direction were dropped for their stage
C23_Witness ==
    /\ phase = "built"
    /\ graph.metrics.dropReasons.stage > 0
    /\ \E i, j \in EdgesOfType(graph, "precedes") :
          /\ i # j
          /\ graph.edges[i].to = graph.edges[j].to
          /\ graph.edges[i].overlapTags = <<"code">>
          /\ \E b \in DOMAIN skills :
                skills[b].id = graph.edges[i].to /\ Includes(skills[b].inputsTags, "Code")

\* the types of the edges of the graph in use from one id to another
EdgeTypesFromTo(from, to) ==
    LET edges == graphEdgesOf(optionsArg, skills)
    IN  {edges[k].type : k \in {l \in DOMAIN edges : edges[l].from = from /\ edges[l].to = to}}

\* the edge bonus the claim gives a candidate at a step
ClaimedEdgeBonus(i, candidate) ==
    IF PreviousWinner(i) = <<>> THEN 0
    ELSE IF "depends_on" \in EdgeTypesFromTo(PreviousWinner(i)[1].id, candidate.skillId) THEN 16000
    ELSE IF "precedes" \in EdgeTypesFromTo(PreviousWinner(i)[1].id, candidate.skillId) THEN 11000
    ELSE 0

\* the score of an entry at a step without any edge bonus: stage score, matches,
\* feedback bias and 0.75 per artifact of the previous winner among its inputs
ScoreBeforeEdgeBonus(i, skill) ==
    LET step == planArg.steps[i]
    IN  scoreStage(step.stage, skill.stage)
            + 11500 * Cardinality(TagSet(step.inputsTags)
                                    \cap (TagSet(skill.inputsTags) \cup TagSet(skill.capabilitiesTags)))
            + 13500 * Cardinality(TagSet(step.outputsTags) \cap TagSet(skill.artifactsTags))
            + 11000 * Cardinality(TagSet(step.capabilitiesTags) \cap TagSet(skill.capabilitiesTags))
            + feedbackBiasForCandidate(step, skill, optionsArg.feedbackEntries).bias
            + (IF PreviousWinner(i) = <<>> THEN 0
               ELSE 7500 * Cardinality(TagSet(PreviousWinner(i)[1].artifactsTags) \cap TagSet(skill.inputsTags)))

\* the graph parts of a candidate's reasoning
GraphParts(candidate) ==
    {candidate.reasoning[k][1] : k \in DOMAIN candidate.reasoning} \cap {"graph depends_on", "graph precedes"}

\* C24: the edge bonus of a candidate is 1.6 when the graph has a depends_on edge from
\* the previous winner to the candidate, 1.1 when it has a precedes edge but no
\* depends_on edge in that direction, and 0 otherwise: the two are never added, and
\* edges in the opposite direction or of undirected types contribute nothing.
C24_EdgeBonus ==
    \A i \in AssembledSteps :
        \A candidate \in ReportedAt(i) :
            \E j \in DOMAIN skills :
                /\ skills[j].id = candidate.skillId
                /\ candidate.score = ScoreBeforeEdgeBonus(i, skills[j]) + ClaimedEdgeBonus(i, candidate)
                /\ GraphParts(candidate) =
                      IF ClaimedEdgeBonus(i, candidate) = 16000 THEN {"graph depends_on"}
                      ELSE IF ClaimedEdgeBonus(i, candidate) = 11000 THEN {"graph precedes"}
                      ELSE {}

\* a reported candidate to which the graph has both a depends_on and a precedes edge
\* from the previous winner, and which the previous winner feeds as well
C24_Witness ==
    \E i \in AssembledSteps :
        /\ PreviousWinner(i) # <<>>
        /\ \E candidate \in ReportedAt(i) :
              /\ EdgeTypesFromTo(PreviousWinner(i)[1].id, candidate.skillId) = {"depends_on", "precedes"}
              /\ GraphParts(candidate) = {"graph depends_on"}
              /\ \E j \in DOMAIN skills :
                    /\ skills[j].id = candidate.skillId
                    /\ candidate.score = ScoreBeforeEdgeBonus(i, skills[j]) + 16000
                    /\ TagSet(PreviousWinner(i)[1].artifactsTags) \cap TagSet(skills[j].inputsTags) # {}

\* a reported candidate with a precedes edge only from the previous winner
PrecedesEdgeBonus ==
    \E i \in AssembledSteps :
        /\ PreviousWinner(i) # <<>>
        /\ \E candidate \in ReportedAt(i) :
              /\ EdgeTypesFromTo(PreviousWinner(i)[1].id, candidate.skillId) = {"precedes"}
              /\ GraphParts(candidate) = {"graph precedes"}

\* a reported candidate with a depends_on edge to the previous winner and a complements
\* edge from it, and no edge bonus
OppositeAndUndirectedEdgesGiveNothing ==
    \E i \in AssembledSteps :
        /\ PreviousWinner(i) # <<>>
        /\ \E candidate \in ReportedAt(i) :
              /\ "depends_on" \in EdgeTypesFromTo(candidate.skillId, PreviousWinner(i)[1].id)
              /\ "complements" \in EdgeTypesFromTo(PreviousWinner(i)[1].id, candidate.skillId)
              /\ GraphParts(candidate) = {}
              /\ \E j \in DOMAIN skills :
                    /\ skills[j].id = candidate.skillId
                    /\ candidate.score = ScoreBeforeEdgeBonus(i, skills[j])

\* the candidates buildSkillGraph passes to pruneDirected in a run
PassedToPrune(run) ==
    LET passed == resolveReciprocalDepends(
                      directedOf(collectedOf(run.entries, computeDf(run.entries)), roundsAbove),
                      run.entries, NoDrops).directed
    IN  {passed[k] : k \in DOMAIN passed}

\* the candidate is an edge of the result
KeptAsEdge(run, candidate) ==
    \E i \in DOMAIN run.result.edges :
        /\ run.result.edges[i].from = candidate.from
        /\ run.result.edges[i].to = candidate.to
        /\ run.result.edges[i].type = candidate.type
        /\ run.result.edges[i].overlapTags = candidate.overlapTags

\* the first candidate ranks ahead of the second: higher score, or equal score and a
\* smaller target id
RanksAhead(a, b) == a.score > b.score \/ (a.score = b.score /\ a.to < b.to)

OutgoingOfType(result, type, node) ==
    {i \in EdgesOfType(result, type) : result.edges[i].from = node}

\* C25: each entry has at most 5 outgoing depends_on edges and at most 5 outgoing
\* precedes edges, and in no (source, type) group does a candidate dropped by top-K rank
\* ahead of a kept one under the order score descending, then target id ascending.
C25_DirectedTopK ==
    \A run \in Runs :
        /\ \A i \in DOMAIN run.entries :
              /\ Cardinality(OutgoingOfType(run.result, "depends_on", run.entries[i].id)) <= 5
              /\ Cardinality(OutgoingOfType(run.result, "precedes", run.entries[i].id)) <= 5
        /\ \A dropped \in {c \in PassedToPrune(run) : ~KeptAsEdge(run, c)} :
              \A kept \in {c \in PassedToPrune(run) : KeptAsEdge(run, c)} :
                  (kept.from = dropped.from /\ kept.type = dropped.type) => ~RanksAhead(dropped, kept)

\* a source with more than 5 depends_on candidates above the threshold: two were
\* dropped, and the kept one of the highest score has a larger target id than both
C25_Witness ==
    /\ phase = "built"
    /\ \E i \in DOMAIN skills :
          /\ Cardinality(OutgoingOfType(graph, "depends_on", skills[i].id)) = 5
          /\ \E kept \in {c \in PassedToPrune([entries |-> skills, result |-> graph]) :
                              KeptAsEdge([entries |-> skills, result |-> graph], c)} :
                Cardinality({c \in PassedToPrune([entries |-> skills, result |-> graph]) :
                                /\ ~KeptAsEdge([entries |-> skills, result |-> graph], c)
                                /\ c.from = skills[i].id /\ kept.from = skills[i].id
                                /\ c.type = "depends_on" /\ kept.type = "depends_on"
                                /\ c.to < kept.to
                                /\ c.score < kept.score}) = 2

(***************************************************************************)
(* Properties of resolveReciprocalDepends                                  *)
(***************************************************************************)
\* positions of the depends_on candidates from one id to another in a candidate list
DependsFromTo(candidates, a, b) ==
    {i \in DOMAIN candidates :
        /\ candidates[i].type = "depends_on"
        /\ candidates[i].from = a
        /\ candidates[i].to = b}

\* the pairs of ids with a depends_on candidate in each direction among the candidates passed
ReciprocalPairs ==
    {pr \in {<<skills[i].id, skills[j].id>> : i, j \in DOMAIN skills} :
        /\ pr[1] < pr[2]
        /\ DependsFromTo(directedArg, pr[1], pr[2]) # {}
        /\ DependsFromTo(directedArg, pr[2], pr[1]) # {}}

\* the depends_on candidate passed for a direction
PassedDepends(a, b) == directedArg[CHOOSE i \in DependsFromTo(directedArg, a, b) : TRUE]

\* the stage rank of the entry with an id
StageOfId(id) == STAGE_ORDER(skills[CHOOSE i \in DOMAIN skills : skills[i].id = id].stage)

\* the target of the candidate is at a strictly later stage than its source
TargetLater(candidate) == StageOfId(candidate.to) > StageOfId(candidate.from)

\* the depends_on candidates kept between two ids, in either direction
KeptBetween(a, b) ==
    {resolution.directed[i] :
        i \in DependsFromTo(resolution.directed, a, b) \cup DependsFromTo(resolution.directed, b, a)}

\* positions of the complements candidates produced for the pair
PromotedFor(a, b) ==
    {i \in DOMAIN resolution.promotedComplements :
        {resolution.promotedComplements[i].from, resolution.promotedComplements[i].to} = {a, b}}

\* the resolution keeps exactly this depends_on candidate between the two ids, once,
\* and produces no complements candidate for them
KeepsOnly(candidate) ==
    /\ KeptBetween(candidate.from, candidate.to) = {candidate}
    /\ Cardinality(DependsFromTo(resolution.directed, candidate.from, candidate.to)) = 1
    /\ PromotedFor(candidate.from, candidate.to) = {}

\* the resolution keeps no depends_on candidate between the two ids and produces one
\* complements candidate with the average score and the union of the overlap tags
Demotes(ab, ba) ==
    /\ KeptBetween(ab.from, ab.to) = {}
    /\ Cardinality(PromotedFor(ab.from, ab.to)) = 1
    /\ \A i \in PromotedFor(ab.from, ab.to) :
          LET promoted == resolution.promotedComplements[i]
          IN  /\ promoted.type = "complements"
              /\ promoted.score = (ab.score + ba.score) \div 2
              /\ SeqToSet(promoted.overlapTags) = SeqToSet(ab.overlapTags) \cup SeqToSet(ba.overlapTags)
              /\ DuplicateFree(promoted.overlapTags)

\* C21: when depends_on candidates in both directions between a and b are passed to
\* resolveReciprocalDepends (unique ids): if exactly one direction has its target at a
\* strictly later stage, only that direction is kept; otherwise, if the two scores
\* differ by at most 0.12, neither is kept and one complements candidate with the
\* average score and the union of the overlap tags is produced; otherwise only the
\* strictly higher-scoring direction is kept.
C21_ReciprocalResolution ==
    (phase = "resolved") =>
        \A pr \in ReciprocalPairs :
            LET ab == PassedDepends(pr[1], pr[2])
                ba == PassedDepends(pr[2], pr[1])
            IN  IF TargetLater(ab) /\ ~TargetLater(ba) THEN KeepsOnly(ab)
                ELSE IF TargetLater(ba) /\ ~TargetLater(ab) THEN KeepsOnly(ba)
                ELSE IF Abs(ab.score - ba.score) <= RECIPROCAL_SCORE_EPSILON THEN Demotes(ab, ba)
                ELSE IF ab.score > ba.score THEN KeepsOnly(ab)
                ELSE KeepsOnly(ba)

\* two entries of the same stage feed each other with scores that differ, by less
\* than 0.12, and the pair was demoted to one complements candidate
C21_Witness ==
    /\ phase = "resolved"
    /\ \E pr \in ReciprocalPairs :
          LET ab == PassedDepends(pr[1], pr[2])
              ba == PassedDepends(pr[2], pr[1])
          IN  /\ ab.score # ba.score
              /\ ~TargetLater(ab) /\ ~TargetLater(ba)
              /\ Demotes(ab, ba)

\* a reciprocal pair is decided by the stages, against the scores: the kept direction
\* is the lower-scoring one
ReciprocalKeptByStage ==
    /\ phase = "resolved"
    /\ \E pr \in ReciprocalPairs :
          LET ab == PassedDepends(pr[1], pr[2])
              ba == PassedDepends(pr[2], pr[1])
          IN  \/ TargetLater(ab) /\ ab.score < ba.score /\ KeepsOnly(ab)
              \/ TargetLater(ba) /\ ba.score < ab.score /\ KeepsOnly(ba)

\* a reciprocal pair of one stage is decided by the scores, which differ by more than 0.12
ReciprocalKeptByScore ==
    /\ phase = "resolved"
    /\ \E pr \in ReciprocalPairs :
          LET ab == PassedDepends(pr[1], pr[2])
              ba == PassedDepends(pr[2], pr[1])
          IN  /\ ~TargetLater(ab) /\ ~TargetLater(ba)
              /\ Abs(ab.score - ba.score) > RECIPROCAL_SCORE_EPSILON
              /\ KeepsOnly(IF ab.score > ba.score THEN ab ELSE ba)

(***************************************************************************)
(* Properties of buildChains                                               *)
(***************************************************************************)
\* the adjacency has an edge from the first node to the second
HasEdge(from, to) ==
    from \in DOMAIN adjacencyArg.adjacency /\ Includes(adjacencyArg.adjacency[from], to)

\* the adjacency has a cycle
HasCycle ==
    ~Acyclic({pr \in (DOMAIN adjacencyArg.adjacency) \X (DOMAIN adjacencyArg.adjacency) : HasEdge(pr[1], pr[2])})

\* C26: buildChains returns (so it terminates) for every adjacency, cycles included;
\* every chain returned has more than one node and no repeated node, starts at a node
\* without incoming edge, ends at a node without outgoing edge and follows an edge of
\* the adjacency at each step; at most 20 chains are returned, in non-increasing order
\* of length.
C26_ChainsArePaths ==
    (phase = "chained") =>
        /\ Len(chains) <= 20
        /\ \A k, l \in DOMAIN chains : k < l => Len(chains[k]) >= Len(chains[l])
        /\ \A k \in DOMAIN chains :
              /\ Len(chains[k]) > 1
              /\ DuplicateFree(chains[k])
              /\ \A node \in DOMAIN adjacencyArg.adjacency : ~HasEdge(node, chains[k][1])
              /\ \A node \in DOMAIN adjacencyArg.adjacency : ~HasEdge(chains[k][Len(chains[k])], node)
              /\ \A p \in 1..(Len(chains[k]) - 1) : HasEdge(chains[k][p], chains[k][p + 1])

\* chains were enumerated for an adjacency with a cycle and a node of more than four
\* targets: twenty chains are returned, not all of one length, one of which passes
\* through the cycle
C26_Witness ==
    /\ phase = "chained"
    /\ HasCycle
    /\ \E node \in DOMAIN adjacencyArg.adjacency : Len(adjacencyArg.adjacency[node]) > 4
    /\ Len(chains) = 20
    /\ Len(chains[1]) > Len(chains[20])
    /\ \E k \in DOMAIN chains :
          \E p, q \in DOMAIN chains[k] : p < q /\ HasEdge(chains[k][q], chains[k][p])

(***************************************************************************)
(* Catalogs too small for a specific tag                                   *)
(***************************************************************************)
\* the graph has no edge and no chain, and its metrics count no candidate and give the
\* threshold 1.2, in units of 10^-8
IsEmptyGraph(result) ==
    /\ result.edges = <<>>
    /\ result.chains = <<>>
    /\ result.metrics.edgeCount = 0
    /\ result.metrics.candidateCount = 0
    /\ result.metrics.threshold = <<120000000, 0>>

\* C29: for every entry list with fewer than 7 entries, whatever the tags and stages,
\* buildSkillGraph generates no candidate at all: the result has zero edges, no chains,
\* candidateCount = 0 and threshold = 1.2.
C29_SmallCatalogNoCandidate ==
    /\ (phase \in {"built", "rebuilt"} /\ Len(skills) < 7) => IsEmptyGraph(graph)
    /\ (phase = "rebuilt" /\ Len(reordered) < 7) => IsEmptyGraph(regraph)

\* a graph was built for six entries of two stages, among them entries that feed each
\* other in both directions and entries with the same capabilities: it is empty
C29_Witness ==
    /\ phase = "built"
    /\ Len(skills) = 6
    /\ \E i, j \in DOMAIN skills :
          /\ StrictlyEarlier(skills[i].stage, skills[j].stage)
          /\ Feeds(skills[i], skills[j]) # {}
          /\ Feeds(skills[j], skills[i]) # {}
    /\ \E i, j \in DOMAIN skills :
          /\ i # j
          /\ skills[i].capabilitiesTags # <<>>
          /\ skills[i].capabilitiesTags = skills[j].capabilitiesTags
    /\ IsEmptyGraph(graph)

\* the smallest catalog with candidates has 7 entries
SevenEntriesHaveCandidates ==
    /\ phase = "built"
    /\ Len(skills) = 7
    /\ graph.metrics.candidateCount > 0

(***************************************************************************)
(* depends_on edges and their precedes twins                               *)
(***************************************************************************)
\* the stage of the entry of a run with the id
StageIn(run, id) == run.entries[CHOOSE i \in DOMAIN run.entries : run.entries[i].id = id].stage

\* the edge goes to an entry at a strictly later stage than the entry it comes from
GoesForward(run, edge) == StrictlyEarlier(StageIn(run, edge.from), StageIn(run, edge.to))

\* the graph has a precedes edge with the endpoints, the score and the overlap tags of
\* the edge
HasPrecedesTwin(run, edge) ==
    \E j \in EdgesOfType(run.result, "precedes") :
        /\ run.result.edges[j].from = edge.from
        /\ run.result.edges[j].to = edge.to
        /\ run.result.edges[j].score = edge.score
        /\ run.result.edges[j].overlapTags = edge.overlapTags

\* the depends_on candidates of a catalog from one source, as collectCandidates
\* returns them
DependsCandidatesFrom(entries, id) ==
    {c \in SeqToSet(candidatesOf(entries)) : c.type = "depends_on" /\ c.from = id}

\* C30: for every entry list with unique ids, whenever the returned graph contains a
\* depends_on edge from a to b with b at a strictly later stage than a, it also
\* contains a precedes edge from a to b with the same score and the same overlap tags.
C30_ForwardDependsHasPrecedesTwin ==
    \A run \in Runs :
        UniqueIds(run.entries) =>
            \A i \in EdgesOfType(run.result, "depends_on") :
                GoesForward(run, run.result.edges[i]) => HasPrecedesTwin(run, run.result.edges[i])

\* a graph with a source that had more than 5 depends_on candidates: 5 depends_on
\* edges from it are returned, all to entries of a later stage, each with its
\* precedes twin
C30_Witness ==
    /\ phase = "built"
    /\ UniqueIds(skills)
    /\ \E s \in DOMAIN skills :
          LET run == [entries |-> skills, result |-> graph]
              out == {i \in EdgesOfType(graph, "depends_on") : graph.edges[i].from = skills[s].id}
          IN  /\ Cardinality(DependsCandidatesFrom(skills, skills[s].id)) > 5
              /\ Cardinality(out) = 5
              /\ \A i \in out : GoesForward(run, graph.edges[i]) /\ HasPrecedesTwin(run, graph.edges[i])

\* a depends_on edge to an entry of the same stage or of an earlier one is returned
\* without a precedes twin
BackwardDependsHasNoTwin ==
    /\ phase = "built"
    /\ UniqueIds(skills)
    /\ \E i \in EdgesOfType(graph, "depends_on") :
          LET run == [entries |-> skills, result |-> graph]
          IN  ~GoesForward(run, graph.edges[i]) /\ ~HasPrecedesTwin(run, graph.edges[i])

(***************************************************************************)
(* Properties of the last steps of mapRawTag                               *)
(***************************************************************************)
\* a raw tag as mapRawTag reads it: trimmed, then normalized
Trimmed(rawTag) == trim(Chars[rawTag])

Normalized(rawTag) == normalizeTagToken(Trimmed(rawTag))

\* the normalized raw tag without its spaces
Compact(rawTag) == SelectSeq(Normalized(rawTag), LAMBDA c : c \notin Whitespace)

Tokens(rawTag) == splitWords(Normalized(rawTag))

\* the vocabulary tag a single token is or is a synonym of, NoTag if it is neither
TokenTag(part) == IF vocabTag(part) # NoTag THEN vocabTag(part) ELSE lookup(SYNONYM_TO_TAG, part)

\* none of the steps before the per-token scan maps the raw tag
ReachesTokenScan(rawTag) ==
    /\ Trimmed(rawTag) # <<>>
    /\ vocabTag(toCanonicalCandidate(Trimmed(rawTag))) = NoTag
    /\ Normalized(rawTag) # <<>>
    /\ vocabTag(Normalized(rawTag)) = NoTag
    /\ lookup(ALIAS_MAP, Compact(rawTag)) = NoTag
    /\ lookup(ALIAS_MAP, Normalized(rawTag)) = NoTag
    /\ lookup(SYNONYM_TO_TAG, Compact(rawTag)) = NoTag
    /\ lookup(SYNONYM_TO_TAG, Normalized(rawTag)) = NoTag
    /\ \A i \in DOMAIN COMPOUND_SYNONYMS :
          ~includesText(Normalized(rawTag), Chars[COMPOUND_SYNONYMS[i][1]])

\* the tags of the tokens of the raw tag that have one, in the order of the tokens
TokenTags(rawTag) ==
    SelectSeq([i \in DOMAIN Tokens(rawTag) |-> TokenTag(Tokens(rawTag)[i])], LAMBDA tag : tag # NoTag)

\* the vocabulary entries closestTagByTokenScore scores against the raw tag
ScoredTags(rawTag) == {tag \in VOCAB_SET : ~(Len(Tokens(rawTag)) > 1 /\ Len(Chars[tag]) <= 2)}

\* no vocabulary entry has a token-overlap score of 8 or more
NoTokenOverlap(rawTag) ==
    \A tag \in ScoredTags(rawTag) : tokenScore(Normalized(rawTag), Tokens(rawTag), tag) < 8

\* the vocabulary entries longer than 2 characters
MeasuredTags == {tag \in VOCAB_SET : Len(Chars[tag]) > 2}

\* the edit distance between the compact raw tag and each entry without its hyphens
Distances(rawTag) ==
    [tag \in MeasuredTags |->
        levenshteinDistance(Compact(rawTag), SelectSeq(Chars[tag], LAMBDA c : c # "-"))] @@ <<>>

\* the entries within the distance of the raw tag that no entry is closer than
ClosestWithin(distances, limit) ==
    {tag \in DOMAIN distances :
        /\ distances[tag] <= limit
        /\ \A other \in DOMAIN distances : distances[tag] <= distances[other]}

\* how a raw tag goes through the last steps of mapRawTag: scanned, the tag its first
\* known token gives (NoTag if no step before the scan is passed or no token is
\* known); fallback, whether it is left to the edit distance; short, whether its
\* compact form has fewer than 5 characters; closest, the entries within distance 2
\* that are closest to it
LastSteps(rawTag) ==
    LET reaches == ReachesTokenScan(rawTag)
        known == IF reaches THEN TokenTags(rawTag) ELSE <<>>
        fallback == reaches /\ known = <<>> /\ NoTokenOverlap(rawTag)
    IN  [scanned |-> IF known = <<>> THEN NoTag ELSE known[1],
         fallback |-> fallback,
         short |-> Len(Compact(rawTag)) < 5,
         closest |-> IF fallback THEN ClosestWithin(Distances(rawTag), 2) ELSE {}]

LastStepsTable == [rawTag \in DOMAIN Chars |-> LastSteps(rawTag)] @@ <<>>

\* the entry of the table for the raw tag at a position
LastStepsAt(k) == LastStepsTable[rawTagsArg[k]]

TrimmedAt(k) == Trimmed(rawTagsArg[k])

\* the per-token scan maps the raw tag at the position
ScannedAt(k) == LastStepsAt(k).scanned # NoTag

\* the call recorded an unknown_tag issue that maps the raw tag to the tag (NoTag: to
\* none), in the field of the call
HasMappingIssue(rawChars, mappedTo) ==
    \E i \in DOMAIN sanitized.issues :
        /\ sanitized.issues[i].reason = "unknown_tag"
        /\ sanitized.issues[i].rawTag = rawChars
        /\ sanitized.issues[i].mappedTo = mappedTo
        /\ sanitized.issues[i].field = fieldArg

\* the artifacts field replaces the tag by its autocorrect target
Autocorrected(mapped) ==
    /\ fieldArg = "artifactsTags"
    /\ mapped \notin FIELD_ALLOWED(fieldArg)
    /\ AutocorrectTarget(mapped) \in FIELD_ALLOWED(fieldArg)

\* C27: for every field, whenever a raw tag is accepted through the per-token scan
\* (a single token of it is in the vocabulary or the synonym table), the issue list the
\* call returns holds an issue recording that raw tag, with the field of the call.
C27_TokenScanRaisesIssue ==
    phase \in {"sanitized", "resanitized"} =>
        \A k \in ReadPositions :
            ScannedAt(k) => HasMappingIssue(TrimmedAt(k), LastStepsAt(k).scanned)

\* C27, the part the code keeps: a raw tag the per-token scan maps to a tag that the
\* artifacts field does not replace by its autocorrect target
C27_TokenScanRaisesIssueUnlessAutocorrected ==
    phase \in {"sanitized", "resanitized"} =>
        \A k \in ReadPositions :
            (ScannedAt(k) /\ ~Autocorrected(LastStepsAt(k).scanned)) =>
                HasMappingIssue(TrimmedAt(k), LastStepsAt(k).scanned)

\* the per-token scan mapped a raw tag to a tag the artifacts field autocorrected: the
\* target is returned and no issue records the raw tag
TokenScanAutocorrectedSilently ==
    /\ phase = "sanitized"
    /\ \E k \in ReadPositions :
          /\ ScannedAt(k)
          /\ Autocorrected(LastStepsAt(k).scanned)
          /\ Includes(sanitized.tags, AutocorrectTarget(LastStepsAt(k).scanned))
          /\ \A i \in DOMAIN sanitized.issues : sanitized.issues[i].rawTag # TrimmedAt(k)

\* the per-token scan mapped a raw tag, the tag was returned and the issue recorded
TokenScanFlagged ==
    /\ phase = "sanitized"
    /\ \E k \in ReadPositions :
          /\ ScannedAt(k)
          /\ Includes(sanitized.tags, LastStepsAt(k).scanned)
          /\ HasMappingIssue(TrimmedAt(k), LastStepsAt(k).scanned)

\* mapRawTag leaves the raw tag at the position to the edit distance: no step before
\* closestTagByTokenScore maps it and no vocabulary entry scores 8 or more
FallbackAt(k) == LastStepsAt(k).fallback

\* some vocabulary entry longer than 2 characters is within distance 2
NearAt(k) == LastStepsAt(k).closest # {}

\* the call took the raw tag at the position as the tag: it recorded the mapping, or
\* the artifacts field replaced the tag by its autocorrect target
TakenAs(k, tag) ==
    /\ mapRawTag(rawTagsArg[k]).mapped = tag
    /\ \/ HasMappingIssue(TrimmedAt(k), tag)
       \/ Autocorrected(tag) /\ Includes(sanitized.tags, AutocorrectTarget(tag))

\* the call dropped the raw tag at the position with an unknown_tag issue
DroppedUnknown(k) ==
    /\ mapRawTag(rawTagsArg[k]).mapped = NoTag
    /\ HasMappingIssue(TrimmedAt(k), NoTag)
    /\ AcceptedAt(k) = <<>>

\* C28 as stated: for a raw tag that reaches the fuzzy fallback and has no vocabulary
\* entry with a token-overlap score of 8 or more, the tag is accepted exactly when its
\* compact form is within Levenshtein distance 2 of some vocabulary entry longer than 2
\* characters, and it is then mapped to a closest such entry; otherwise it is dropped
\* with an unknown_tag issue.
C28_FuzzyAcceptsWithinTwo ==
    phase \in {"sanitized", "resanitized"} =>
        \A k \in ReadPositions :
            FallbackAt(k) =>
                IF NearAt(k)
                THEN \E tag \in LastStepsAt(k).closest : TakenAs(k, tag)
                ELSE DroppedUnknown(k)

\* C28, amended: as C28, where the tag is accepted exactly when its compact form has
\* at least 5 characters and is within Levenshtein distance 2 of some vocabulary entry
\* longer than 2 characters (compared without its hyphens); a shorter raw tag is
\* dropped with an unknown_tag issue whatever its distance.
C28_FuzzyAcceptsLongWithinTwo ==
    phase \in {"sanitized", "resanitized"} =>
        \A k \in ReadPositions :
            FallbackAt(k) =>
                IF ~LastStepsAt(k).short /\ NearAt(k)
                THEN \E tag \in LastStepsAt(k).closest : TakenAs(k, tag)
                ELSE DroppedUnknown(k)

\* one call read a raw tag of two words that the edit distance of its compact form
\* maps to a vocabulary entry, and a raw tag of four characters within distance 2 of
\* an entry, which it dropped
C28_Witness ==
    /\ phase = "sanitized"
    /\ \E k \in ReadPositions :
          /\ FallbackAt(k)
          /\ Len(Tokens(rawTagsArg[k])) > 1
          /\ \E tag \in LastStepsAt(k).closest : TakenAs(k, tag) /\ Includes(sanitized.tags, tag)
    /\ \E k \in ReadPositions :
          /\ FallbackAt(k)
          /\ LastStepsAt(k).short
          /\ NearAt(k)
          /\ DroppedUnknown(k)

\* a raw tag of five characters or more that is further than 2 from every entry is
\* dropped, and one the edit distance maps to a tag the artifacts field autocorrects is
\* taken without an issue
FuzzyFarDroppedAndNearAutocorrected ==
    /\ phase = "sanitized"
    /\ \E k \in ReadPositions :
          /\ FallbackAt(k)
          /\ ~LastStepsAt(k).short
          /\ ~NearAt(k)
          /\ DroppedUnknown(k)
    /\ \E k \in ReadPositions :
          /\ FallbackAt(k)
          /\ \E tag \in LastStepsAt(k).closest :
                TakenAs(k, tag) /\ Autocorrected(tag) /\ ~HasMappingIssue(TrimmedAt(k), tag)
====
